---- MODULE Spec2Model ----
(***************************************************************************)
(* A model of the rental agent: the SQLite-backed MockDatabase             *)
(* (src/rental_agent/mock_db.py) and the tool functions that the dialogue  *)
(* engine calls (src/rental_agent/agent.py).                               *)
(*                                                                         *)
(* Conventions.                                                            *)
(*  - A Python value that may be None is a set with at most one element:   *)
(*    None is {} and a present value v is {v}.                             *)
(*  - Text that the code inspects character by character (dates, times) is *)
(*    a sequence of one-character strings; text the code only stores and   *)
(*    compares for equality (names, identifiers, unit types) is a string.  *)
(*  - A Python dict is a function whose domain is its set of keys.         *)
(*  - A row of users holds every column as such an optional value.         *)
(*  - An SQL table is the sequence of its rows in storage (rowid) order.   *)
(***************************************************************************)
EXTENDS Integers, Sequences, FiniteSets, TLC

VARIABLES
    apartments,          \* table apartments
    property_amenities,  \* table property_amenities
    users,               \* table users
    tours,               \* table tours
    state,               \* tool_context.state: None or a dict
    clock,               \* number of datetime.datetime.now() readings so far
    today,               \* datetime.date.today()
    call,                \* the call made last: operation and arguments
    ret,                 \* what that call returned
    pre                  \* users, tours and state as they were before that call

vars == <<apartments, property_amenities, users, tours, state, clock, today,
          call, ret, pre>>

----------------------------------------------------------------------------
(* Optional values and dicts *)

None == {}
Some(v) == {v}
Get(o) == CHOOSE v \in o : TRUE

EmptyDict == <<>>
DictSet(d, k, v) == [x \in DOMAIN d \cup {k} |-> IF x = k THEN v ELSE d[x]]
\* dict.update(other): the keys of other win
DictUpdate(d, other) ==
    [x \in DOMAIN d \cup DOMAIN other |-> IF x \in DOMAIN other THEN other[x] ELSE d[x]]

\* Python truthiness of an Optional[str], an Optional[number], of text
TruthyStr(o) == o # None /\ Get(o) # ""
TruthyNum(o) == o # None /\ Get(o) # 0
TruthyText(o) == o # None /\ Get(o) # <<>>

----------------------------------------------------------------------------
(* Text: the str methods the tools use *)

\* the characters of the model in code point order
Alphabet ==
    <<" ", "+", "-", "0", "1", "2", "3", "4", "5", "6", "7", "8", "9", ":",
      "A", "C", "D", "J", "M", "P", "T", "a", "d", "e", "f", "g", "i", "j", "k",
      "l", "m", "n", "o", "p", "r", "s", "t", "u", "w", "x", "y">>

Ord(c) == CHOOSE i \in 1..Len(Alphabet) : Alphabet[i] = c

Digits == <<"0", "1", "2", "3", "4", "5", "6", "7", "8", "9">>
IsDigit(c) == \E i \in 1..10 : Digits[i] = c
DigitVal(c) == (CHOOSE i \in 1..10 : Digits[i] = c) - 1

LowerChar(c) ==
    CASE c = "A" -> "a"
      [] c = "C" -> "c"
      [] c = "D" -> "d"
      [] c = "J" -> "j"
      [] c = "M" -> "m"
      [] c = "P" -> "p"
      [] c = "T" -> "t"
      [] OTHER -> c

\* str.lower()
Lower(s) == [i \in 1..Len(s) |-> LowerChar(s[i])]

StartsWith(s, sub) ==
    /\ Len(sub) <= Len(s)
    /\ \A i \in 1..Len(sub) : s[i] = sub[i]

\* sub in s
Contains(s, sub) ==
    \E k \in 0..(Len(s) - Len(sub)) : StartsWith(SubSeq(s, k + 1, Len(s)), sub)

RECURSIVE Replace(_, _)
\* s.replace(sub, ""): every occurrence, scanning from the left
Replace(s, sub) ==
    IF s = <<>> THEN <<>>
    ELSE IF StartsWith(s, sub) THEN Replace(SubSeq(s, Len(sub) + 1, Len(s)), sub)
    ELSE <<s[1]>> \o Replace(Tail(s), sub)

RECURSIVE LStrip(_)
LStrip(s) == IF s # <<>> /\ s[1] = " " THEN LStrip(Tail(s)) ELSE s

RECURSIVE RStrip(_)
RStrip(s) ==
    IF s # <<>> /\ s[Len(s)] = " " THEN RStrip(SubSeq(s, 1, Len(s) - 1)) ELSE s

\* str.strip()
Strip(s) == RStrip(LStrip(s))

RECURSIVE Split(_, _)
\* s.split(sep) for a one-character separator: the list of parts
Split(s, sep) ==
    IF \A i \in 1..Len(s) : s[i] # sep THEN <<s>>
    ELSE LET k == CHOOSE i \in 1..Len(s) :
                      s[i] = sep /\ \A j \in 1..(i - 1) : s[j] # sep
         IN  <<SubSeq(s, 1, k - 1)>> \o Split(SubSeq(s, k + 1, Len(s)), sep)

RECURSIVE DigitsVal(_)
DigitsVal(s) ==
    IF s = <<>> THEN 0
    ELSE 10 * DigitsVal(SubSeq(s, 1, Len(s) - 1)) + DigitVal(s[Len(s)])

\* int(s): None stands for the ValueError int() raises
ParseInt(s) ==
    LET t == Strip(s)
        signed == t # <<>> /\ t[1] \in {"+", "-"}
        body == IF signed THEN Tail(t) ELSE t
    IN  IF body = <<>> \/ \E i \in 1..Len(body) : ~IsDigit(body[i]) THEN None
        ELSE IF signed /\ t[1] = "-" THEN Some(0 - DigitsVal(body))
        ELSE Some(DigitsVal(body))

RECURSIVE NatStr(_)
NatStr(n) ==
    IF n < 10 THEN <<Digits[n + 1]>> ELSE NatStr(n \div 10) \o <<Digits[(n % 10) + 1]>>

\* f"{n}"
IntStr(n) == IF n < 0 THEN <<"-">> \o NatStr(0 - n) ELSE NatStr(n)

\* f"{n:02d}": zero-padded to a width of two, the sign counted in the width
Fmt02d(n) == IF n >= 0 /\ n < 10 THEN <<"0">> \o NatStr(n) ELSE IntStr(n)

\* f"{n:04d}"
RECURSIVE ZeroPad(_, _)
ZeroPad(s, w) == IF Len(s) >= w THEN s ELSE ZeroPad(<<"0">> \o s, w)

RECURSIVE TextLE(_, _)
\* a <= b for TEXT values under SQLite's BINARY collation
TextLE(a, b) ==
    IF a = <<>> THEN TRUE
    ELSE IF b = <<>> THEN FALSE
    ELSE IF a[1] = b[1] THEN TextLE(Tail(a), Tail(b))
    ELSE Ord(a[1]) < Ord(b[1])

----------------------------------------------------------------------------
(* Calendar: date.today() + timedelta(days = n) and strftime("%Y-%m-%d") *)

IsLeap(y) == (y % 4 = 0 /\ y % 100 # 0) \/ y % 400 = 0

DaysIn(y, m) ==
    CASE m \in {4, 6, 9, 11} -> 30
      [] m = 2 -> IF IsLeap(y) THEN 29 ELSE 28
      [] OTHER -> 31

NextDay(d) ==
    IF d.day < DaysIn(d.year, d.month) THEN [d EXCEPT !.day = d.day + 1]
    ELSE IF d.month < 12 THEN [year |-> d.year, month |-> d.month + 1, day |-> 1]
    ELSE [year |-> d.year + 1, month |-> 1, day |-> 1]

RECURSIVE AddDays(_, _)
AddDays(d, n) == IF n = 0 THEN d ELSE AddDays(NextDay(d), n - 1)

strftime(d) ==
    ZeroPad(NatStr(d.year), 4) \o <<"-">> \o ZeroPad(NatStr(d.month), 2)
        \o <<"-">> \o ZeroPad(NatStr(d.day), 2)

----------------------------------------------------------------------------
(* The data store: MockDatabase *)

Date(y, m, d) == strftime([year |-> y, month |-> m, day |-> d])

Apt(id, unit, type, plan, sqft, beds, baths, rent, avail, date, features) ==
    [id |-> id, unit_number |-> unit, apartment_type |-> type, floor_plan |-> plan,
     square_feet |-> sqft, bedrooms |-> beds, bathrooms |-> baths,
     rent_amount |-> rent, is_available |-> avail, available_date |-> date,
     features |-> features]

apartments_data ==
    << Apt(101, "101", "1_bedroom", "Maple", 750, 1, 1, 1600, 1, Date(2025, 7, 1),
           "Corner unit, extra windows"),
       Apt(102, "102", "1_bedroom", "Maple", 750, 1, 1, 1600, 1, Date(2025, 7, 15),
           "Updated kitchen"),
       Apt(103, "103", "1_bedroom", "Cedar", 780, 1, 1, 1650, 0, Date(2025, 6, 1),
           "Balcony, park view"),
       Apt(201, "201", "1_bedroom", "Cedar", 780, 1, 1, 1650, 0, Date(2025, 8, 1),
           "Extra closet space"),
       Apt(301, "301", "2_bedroom", "Birch", 1050, 2, 2, 2100, 1, Date(2025, 7, 1),
           "Corner unit, city view"),
       Apt(302, "302", "2_bedroom", "Birch", 1050, 2, 2, 2100, 1, Date(2025, 7, 1),
           "Updated bathrooms"),
       Apt(401, "401", "2_bedroom", "Aspen", 1100, 2, 2, 2200, 0, Date(2025, 6, 15),
           "Premium finishes"),
       Apt(402, "402", "2_bedroom", "Aspen", 1100, 2, 2, 2200, 0, Date(2025, 9, 1),
           "Penthouse floor") >>

Amenity(id, name, description, category, fee, included) ==
    [id |-> id, amenity_name |-> name, description |-> description,
     category |-> category, fee_amount |-> fee, is_included |-> included]

amenities_data ==
    << Amenity(1, "Dog-friendly", "Dogs allowed", "Pets", 50, 1),
       Amenity(2, "Cat-friendly", "Cats allowed", "Pets", 30, 1),
       Amenity(3, "Fitness Center", "24-hour access fitness center", "Building", 0, 1),
       Amenity(4, "Pool", "Outdoor pool with sundeck", "Recreation", 0, 1),
       Amenity(5, "Parking", "Covered parking", "Transportation", 75, 0),
       Amenity(6, "In-unit Washer/Dryer", "Washer and dryer in each unit", "In-unit", 0, 1),
       Amenity(7, "Package Lockers", "24-hour package pickup lockers", "Building", 0, 1),
       Amenity(8, "High-speed Internet", "Fiber internet ready", "Technology", 0, 1),
       Amenity(9, "Security System", "24-hour security monitoring", "Safety", 0, 1),
       Amenity(10, "Bike Storage", "Indoor bike storage area", "Transportation", 0, 1) >>

\* a variant of get_available_apartments without "is_available = 1"
get_available_apartments_any(apts, apartment_type, move_in_date) ==
    LET Matches(a) ==
            /\ (TruthyStr(apartment_type) => a.apartment_type = Get(apartment_type))
            /\ (TruthyText(move_in_date) => TextLE(a.available_date, Get(move_in_date)))
    IN  SelectSeq(apts, Matches)

\* SELECT * FROM apartments WHERE is_available = 1 [AND apartment_type = ?]
\*                                                 [AND available_date <= ?]
get_available_apartments(apts, apartment_type, move_in_date) ==
    LET Matches(a) ==
            /\ a.is_available = 1
            /\ (TruthyStr(apartment_type) => a.apartment_type = Get(apartment_type))
            /\ (TruthyText(move_in_date) => TextLE(a.available_date, Get(move_in_date)))
    IN  SelectSeq(apts, Matches)

\* the row as a dict, or the empty dict
get_apartment_by_id(apts, apartment_id) ==
    LET Matches(a) == a.id = apartment_id
        found == SelectSeq(apts, Matches)
    IN  IF found # <<>> THEN found[1] ELSE EmptyDict

\* str(uuid.uuid4()): an identifier no earlier call returned
UserIds == <<"u1", "u2", "u3", "u4">>
uuid4(us) == UserIds[Len(us) + 1]

\* create_user with an omitted has_pets stored as 0
create_user_pets_default(us, name, phone, email, move_in_date, preferred_apartment_type, has_pets, user_id, current_time) ==
    Append(us,
           [id |-> Some(Len(us) + 1),
            user_id |-> Some(user_id),
            name |-> name,
            phone |-> phone,
            email |-> email,
            move_in_date |-> move_in_date,
            preferred_apartment_type |-> preferred_apartment_type,
            has_pets |-> IF has_pets = Some(TRUE) THEN Some(1) ELSE Some(0),
            income |-> None,
            credit_score |-> None,
            notes |-> None,
            created_at |-> Some(current_time),
            last_contact |-> Some(current_time)])

\* the INSERT of create_user; the new table
create_user(us, name, phone, email, move_in_date, preferred_apartment_type, has_pets, user_id, current_time) ==
    Append(us,
           [id |-> Some(Len(us) + 1),
            user_id |-> Some(user_id),
            name |-> name,
            phone |-> phone,
            email |-> email,
            move_in_date |-> move_in_date,
            preferred_apartment_type |-> preferred_apartment_type,
            has_pets |-> IF has_pets = Some(TRUE) THEN Some(1)
                         ELSE IF has_pets # None THEN Some(0) ELSE None,
            income |-> None,
            credit_score |-> None,
            notes |-> None,
            created_at |-> Some(current_time),
            last_contact |-> Some(current_time)])

AllowList ==
    {"name", "phone", "email", "move_in_date", "preferred_apartment_type",
     "income", "credit_score", "notes"}

\* set_clause giving up on the whole update when a key is not recognized
set_clause_strict(kwargs) ==
    LET cols == {k \in DOMAIN kwargs :
                    \/ k \in AllowList
                    \/ (k = "has_pets" /\ kwargs[k] # None)}
    IN  IF \E k \in DOMAIN kwargs : k \notin AllowList \cup {"has_pets"}
        THEN EmptyDict
        ELSE [k \in cols |-> IF k = "has_pets"
                             THEN (IF kwargs[k] = Some(TRUE) THEN Some(1) ELSE Some(0))
                             ELSE kwargs[k]]

\* the SET clause update_user builds from kwargs: column -> parameter
set_clause(kwargs) ==
    LET cols == {k \in DOMAIN kwargs :
                    \/ k \in AllowList
                    \/ (k = "has_pets" /\ kwargs[k] # None)}
    IN  [k \in cols |-> IF k = "has_pets"
                        THEN (IF kwargs[k] = Some(TRUE) THEN Some(1) ELSE Some(0))
                        ELSE kwargs[k]]

\* update_user reads the clock only when it reaches the UPDATE
update_user_reads_clock(kwargs) == kwargs # EmptyDict /\ set_clause(kwargs) # EmptyDict

\* update_user without the refresh of last_contact
update_user_keeps_contact(us, user_id, kwargs, now) ==
    IF ~update_user_reads_clock(kwargs) THEN us
    ELSE LET sc == set_clause(kwargs)
         IN  [i \in 1..Len(us) |->
                 IF us[i].user_id = Some(user_id)
                 THEN [c \in DOMAIN us[i] |->
                          IF c \in DOMAIN sc THEN sc[c] ELSE us[i][c]]
                 ELSE us[i]]

\* the table after update_user(user_id, **kwargs)
update_user(us, user_id, kwargs, now) ==
    IF ~update_user_reads_clock(kwargs) THEN us
    ELSE LET sc == DictSet(set_clause(kwargs), "last_contact", Some(now))
         IN  [i \in 1..Len(us) |->
                 IF us[i].user_id = Some(user_id)
                 THEN [c \in DOMAIN us[i] |->
                          IF c \in DOMAIN sc THEN sc[c] ELSE us[i][c]]
                 ELSE us[i]]

\* cursor.rowcount > 0, or False on the early returns
update_user_result(us, user_id, kwargs) ==
    /\ update_user_reads_clock(kwargs)
    /\ \E i \in 1..Len(us) : us[i].user_id = Some(user_id)

\* the row as a dict with has_pets as a bool, or the empty dict
get_user(us, user_id) ==
    LET Matches(u) == u.user_id = Some(user_id)
        found == SelectSeq(us, Matches)
    IN  IF found # <<>>
        THEN [found[1] EXCEPT !.has_pets =
                 IF @ # None THEN Some(Get(@) # 0) ELSE None]
        ELSE EmptyDict

\* the INSERT of schedule_tour: a NOT NULL column given None raises, and the
\* except clause turns that into -1
schedule_tour_fails(user_id, tour_date, tour_time) ==
    user_id = None \/ tour_date = None \/ tour_time = None

schedule_tour(ts, user_id, tour_date, tour_time, apartment_id, is_virtual, notes) ==
    IF schedule_tour_fails(user_id, tour_date, tour_time) THEN ts
    ELSE Append(ts,
                [id |-> Len(ts) + 1,
                 user_id |-> Get(user_id),
                 tour_date |-> Get(tour_date),
                 tour_time |-> Get(tour_time),
                 apartment_id |-> apartment_id,
                 is_virtual |-> IF is_virtual THEN 1 ELSE 0,
                 status |-> "Scheduled",
                 notes |-> notes])

\* cursor.lastrowid, or -1
schedule_tour_result(ts, user_id, tour_date, tour_time) ==
    IF schedule_tour_fails(user_id, tour_date, tour_time) THEN -1 ELSE Len(ts) + 1

\* SELECT * FROM property_amenities [WHERE category = ?]
get_amenities(ams, category) ==
    LET Matches(a) == TruthyStr(category) => a.category = Get(category)
    IN  SelectSeq(ams, Matches)

\* a REAL that is a quotient of integers, in lowest terms
RECURSIVE Gcd(_, _)
Gcd(a, b) == IF b = 0 THEN a ELSE Gcd(b, a % b)
Rat(n, d) == [num |-> n \div Gcd(n, d), den |-> d \div Gcd(n, d)]

\* SUM(rent_amount) over rows
RECURSIVE SumRent(_)
SumRent(rows) == IF rows = <<>> THEN 0 ELSE Head(rows).rent_amount + SumRent(Tail(rows))

\* get_pricing_info over the available units only
get_pricing_info_available(apts, apartment_type) ==
    LET Rows(t) == LET Of(a) == a.apartment_type = t /\ a.is_available = 1
                   IN  SelectSeq(apts, Of)
        types == {apts[i].apartment_type : i \in 1..Len(apts)}
        groups == {t \in types :
                      /\ Rows(t) # <<>>
                      /\ (TruthyStr(apartment_type) => t = Get(apartment_type))}
    IN  [t \in groups |->
            LET rents == {Rows(t)[i].rent_amount : i \in 1..Len(Rows(t))}
            IN  [min_rent |-> CHOOSE r \in rents : \A q \in rents : r <= q,
                 max_rent |-> CHOOSE r \in rents : \A q \in rents : r >= q,
                 avg_rent |-> Rat(SumRent(Rows(t)), Len(Rows(t))),
                 count |-> Len(Rows(t))]]

\* SELECT apartment_type, MIN, MAX, AVG, COUNT(*) FROM apartments
\* [WHERE apartment_type = ?] GROUP BY apartment_type, as a dict by type
get_pricing_info(apts, apartment_type) ==
    LET Rows(t) == LET Of(a) == a.apartment_type = t IN SelectSeq(apts, Of)
        types == {apts[i].apartment_type : i \in 1..Len(apts)}
        groups == {t \in types : TruthyStr(apartment_type) => t = Get(apartment_type)}
    IN  [t \in groups |->
            LET rents == {Rows(t)[i].rent_amount : i \in 1..Len(Rows(t))}
            IN  [min_rent |-> CHOOSE r \in rents : \A q \in rents : r <= q,
                 max_rent |-> CHOOSE r \in rents : \A q \in rents : r >= q,
                 avg_rent |-> Rat(SumRent(Rows(t)), Len(Rows(t))),
                 count |-> Len(Rows(t))]]

\* round(x, 2) of a non-negative quotient: the nearest hundredth
round2(x) == Rat((x.num * 200 + x.den) \div (2 * x.den), 100)

\* a row of tours LEFT JOINed with the unit it references
tour_with_unit(t, apts) ==
    LET Matches(a) == t.apartment_id = Some(a.id)
        found == SelectSeq(apts, Matches)
    IN  [id |-> t.id, user_id |-> t.user_id, tour_date |-> t.tour_date,
         tour_time |-> t.tour_time, apartment_id |-> t.apartment_id,
         is_virtual |-> t.is_virtual # 0, status |-> t.status, notes |-> t.notes,
         unit_number |-> IF found = <<>> THEN None ELSE Some(found[1].unit_number),
         apartment_type |-> IF found = <<>> THEN None ELSE Some(found[1].apartment_type),
         floor_plan |-> IF found = <<>> THEN None ELSE Some(found[1].floor_plan)]

\* ORDER BY t.tour_date, t.tour_time: TEXT columns, compared as text
tour_order(x, y) ==
    IF x.tour_date = y.tour_date THEN TextLE(x.tour_time, y.tour_time)
    ELSE TextLE(x.tour_date, y.tour_date)

\* the lists get_user_tours may return: SQL leaves the order of rows with
\* equal sort keys open
get_user_tours(ts, apts, user_id) ==
    LET mine == {i \in 1..Len(ts) : ts[i].user_id = user_id}
        n == Cardinality(mine)
        orders == {o \in [1..n -> mine] :
                      /\ \A a, b \in 1..n : a # b => o[a] # o[b]
                      /\ \A a, b \in 1..n : a < b => tour_order(ts[o[a]], ts[o[b]])}
    IN  {[k \in 1..n |-> tour_with_unit(ts[o[k]], apts)] : o \in orders}

----------------------------------------------------------------------------
(* Bounds *)

MaxUsers == 2    \* rows of users
MaxTours == 1    \* rows of tours
MaxClock == 3    \* readings of the clock

----------------------------------------------------------------------------
(* The tool layer: agent.py *)

Text_july == <<"j", "u", "l", "y">>
Text_august == <<"a", "u", "g", "u", "s", "t">>
Text_tomorrow == <<"t", "o", "m", "o", "r", "r", "o", "w">>
Text_next_week == <<"n", "e", "x", "t", " ", "w", "e", "e", "k">>
Text_am == <<"a", "m">>
Text_pm == <<"p", "m">>

\* the session the runner creates: state = initial_state
initial_state == [user_info |-> EmptyDict]

\* "if tool_context and tool_context.state is None: tool_context.state = {}"
EnsureState(tool_context) ==
    IF tool_context /\ state = None THEN Some(EmptyDict) ELSE state

\* tool_context.state[key] = value, when there is a tool context
StoreInState(tool_context, key, value) ==
    IF tool_context THEN Some(DictSet(Get(EnsureState(tool_context)), key, value))
    ELSE state

\* "tool_context and key in tool_context.state"
InState(tool_context, key) ==
    tool_context /\ key \in DOMAIN Get(EnsureState(tool_context))

Snapshot == [users |-> users, tours |-> tours, state |-> state]

\* query_apartments: the date bound it derives from the move-in hint
query_apartments_formatted_date(move_in_date) ==
    IF ~TruthyText(move_in_date) THEN None
    ELSE IF Lower(Get(move_in_date)) = Text_july THEN Some(Date(2025, 7, 1))
    ELSE IF Lower(Get(move_in_date)) = Text_august THEN Some(Date(2025, 8, 1))
    ELSE None

\* the "counts" loop: unit type -> number of units of that type in the list
counts_by_type(apts) ==
    [t \in {apts[i].apartment_type : i \in 1..Len(apts)} |->
        Cardinality({i \in 1..Len(apts) : apts[i].apartment_type = t})]

query_apartments(apartment_type, move_in_date, tool_context) ==
    LET formatted_date == query_apartments_formatted_date(move_in_date)
        apts == get_available_apartments(apartments, apartment_type, formatted_date)
        counts == counts_by_type(apts)
    IN  /\ call' = [op |-> "query_apartments", apartment_type |-> apartment_type,
                    move_in_date |-> move_in_date, tool_context |-> tool_context]
        /\ pre' = Snapshot
        /\ state' = StoreInState(tool_context, "last_apartment_search",
                        [apartment_type |-> apartment_type,
                         move_in_date |-> move_in_date,
                         formatted_date |-> formatted_date,
                         result_count |-> Len(apts),
                         counts_by_type |-> counts])
        /\ ret' = [status |-> "success", available_count |-> Len(apts),
                   counts_by_type |-> counts, apartments |-> apts]
        /\ UNCHANGED <<apartments, property_amenities, users, tours, clock, today>>

\* manage_user: the date it derives from the move-in hint; the except clause
\* is never reached for a str
manage_user_formatted_date(move_in_date) ==
    IF ~TruthyText(move_in_date) THEN None
    ELSE IF Lower(Get(move_in_date)) = Text_july THEN Some(Date(2025, 7, 1))
    ELSE IF Lower(Get(move_in_date)) = Text_august THEN Some(Date(2025, 8, 1))
    ELSE None

\* resolve_user_id preferring the session's identifier to the argument
resolve_user_id_session_first(user_id, tool_context) ==
    IF InState(tool_context, "current_user_id")
    THEN Some(Get(EnsureState(tool_context))["current_user_id"])
    ELSE user_id

\* "if not user_id and tool_context and 'current_user_id' in tool_context.state"
resolve_user_id(user_id, tool_context) ==
    IF ~TruthyStr(user_id) /\ InState(tool_context, "current_user_id")
    THEN Some(Get(EnsureState(tool_context))["current_user_id"])
    ELSE user_id

\* the update_fields dict of the "update" branch
update_fields(name, phone, email, formatted_date, preferred_apartment_type, has_pets, income, credit_score, notes) ==
    LET keys ==
            (IF TruthyStr(name) THEN {"name"} ELSE {})
            \cup (IF TruthyStr(phone) THEN {"phone"} ELSE {})
            \cup (IF TruthyStr(email) THEN {"email"} ELSE {})
            \cup (IF TruthyText(formatted_date) THEN {"move_in_date"} ELSE {})
            \cup (IF TruthyStr(preferred_apartment_type)
                  THEN {"preferred_apartment_type"} ELSE {})
            \cup (IF has_pets # None THEN {"has_pets"} ELSE {})
            \cup (IF TruthyNum(income) THEN {"income"} ELSE {})
            \cup (IF TruthyNum(credit_score) THEN {"credit_score"} ELSE {})
            \cup (IF TruthyStr(notes) THEN {"notes"} ELSE {})
    IN  [k \in keys |->
            CASE k = "name" -> name
              [] k = "phone" -> phone
              [] k = "email" -> email
              [] k = "move_in_date" -> formatted_date
              [] k = "preferred_apartment_type" -> preferred_apartment_type
              [] k = "has_pets" -> has_pets
              [] k = "income" -> income
              [] k = "credit_score" -> credit_score
              [] k = "notes" -> notes]


\* the "create" branch
manage_user_create(name, phone, email, move_in_date, preferred_apartment_type, has_pets, tool_context) ==
    LET formatted_date == manage_user_formatted_date(move_in_date)
        user_id == uuid4(users)
        st1 == StoreInState(tool_context, "current_user_id", user_id)
        info == [user_id |-> Some(user_id),
                 name |-> name,
                 phone |-> phone,
                 email |-> email,
                 move_in_date |-> move_in_date,
                 formatted_move_in_date |-> formatted_date,
                 preferred_apartment_type |-> preferred_apartment_type,
                 has_pets |-> has_pets]
    IN  /\ Len(users) < MaxUsers
        /\ clock < MaxClock
        /\ clock' = clock + 1
        /\ users' = create_user(users, name, phone, email, formatted_date,
                                preferred_apartment_type, has_pets, user_id, clock')
        /\ state' = IF tool_context THEN Some(DictSet(Get(st1), "user_info", info))
                    ELSE state
        /\ ret' = [status |-> "success", user_id |-> user_id,
                   message |-> "User created successfully"]

\* the "update" branch
manage_user_update(user_id, name, phone, email, move_in_date, preferred_apartment_type, has_pets, income, credit_score, notes, tool_context) ==
    LET formatted_date == manage_user_formatted_date(move_in_date)
        uid == resolve_user_id(user_id, tool_context)
        fields == update_fields(name, phone, email, formatted_date,
                                preferred_apartment_type, has_pets, income,
                                credit_score, notes)
        st0 == EnsureState(tool_context)
    IN  IF ~TruthyStr(uid)
        THEN /\ ret' = [status |-> "error", message |-> "No user ID provided for update"]
             /\ state' = st0
             /\ UNCHANGED <<users, clock>>
        ELSE /\ update_user_reads_clock(fields) => clock < MaxClock
             /\ clock' = IF update_user_reads_clock(fields) THEN clock + 1 ELSE clock
             /\ users' = update_user(users, Get(uid), fields, clock')
             /\ IF update_user_result(users, Get(uid), fields)
                THEN /\ state' =
                          IF InState(tool_context, "user_info")
                          THEN LET merged == DictUpdate(Get(st0)["user_info"], fields)
                               IN  Some(DictSet(Get(st0), "user_info",
                                       IF TruthyText(move_in_date)
                                       THEN DictSet(merged, "move_in_date", move_in_date)
                                       ELSE merged))
                          ELSE st0
                     /\ ret' = [status |-> "success",
                                message |-> "User updated successfully"]
                ELSE /\ state' = st0
                     /\ ret' = [status |-> "error",
                                message |-> "Failed to update user information"]

\* the "get" branch clearing last_contact of the prospect it reads
manage_user_get_touching(user_id, tool_context) ==
    LET uid == resolve_user_id(user_id, tool_context)
        st0 == EnsureState(tool_context)
        user == get_user(users, Get(uid))
    IN  /\ users' = [i \in 1..Len(users) |->
                        IF TruthyStr(uid) /\ users[i].user_id = uid
                        THEN [users[i] EXCEPT !.last_contact = None]
                        ELSE users[i]]
        /\ UNCHANGED clock
        /\ IF ~TruthyStr(uid)
           THEN /\ ret' = [status |-> "error",
                           message |-> "No user ID provided to retrieve user information"]
                /\ state' = st0
           ELSE IF user # EmptyDict
           THEN /\ ret' = [status |-> "success", user |-> user]
                /\ state' = StoreInState(tool_context, "user_info", user)
           ELSE /\ ret' = [status |-> "error", message |-> "No user found with ID",
                           user_id |-> Get(uid)]
                /\ state' = st0

\* the "get" branch
manage_user_get(user_id, tool_context) ==
    LET uid == resolve_user_id(user_id, tool_context)
        st0 == EnsureState(tool_context)
        user == get_user(users, Get(uid))
    IN  /\ UNCHANGED <<users, clock>>
        /\ IF ~TruthyStr(uid)
           THEN /\ ret' = [status |-> "error",
                           message |-> "No user ID provided to retrieve user information"]
                /\ state' = st0
           ELSE IF user # EmptyDict
           THEN /\ ret' = [status |-> "success", user |-> user]
                /\ state' = StoreInState(tool_context, "user_info", user)
           ELSE /\ ret' = [status |-> "error", message |-> "No user found with ID",
                           user_id |-> Get(uid)]
                /\ state' = st0

manage_user(action, user_id, name, phone, email, move_in_date, preferred_apartment_type, has_pets, income, credit_score, notes, tool_context) ==
    /\ call' = [op |-> "manage_user", action |-> action, user_id |-> user_id,
                name |-> name, phone |-> phone, email |-> email,
                move_in_date |-> move_in_date,
                preferred_apartment_type |-> preferred_apartment_type,
                has_pets |-> has_pets, income |-> income,
                credit_score |-> credit_score, notes |-> notes,
                tool_context |-> tool_context]
    /\ pre' = Snapshot
    /\ CASE action = "create" ->
                manage_user_create(name, phone, email, move_in_date,
                                   preferred_apartment_type, has_pets, tool_context)
         [] action = "update" ->
                manage_user_update(user_id, name, phone, email, move_in_date,
                                   preferred_apartment_type, has_pets, income,
                                   credit_score, notes, tool_context)
         [] action = "get" -> manage_user_get(user_id, tool_context)
         [] OTHER ->
                /\ ret' = [status |-> "error", message |-> "Unknown action",
                           action |-> action]
                /\ state' = EnsureState(tool_context)
                /\ UNCHANGED <<users, clock>>
    /\ UNCHANGED <<apartments, property_amenities, tours, today>>


\* tour_user_id booking for a guest when the session names no prospect
tour_user_id_guest(tool_context) ==
    IF InState(tool_context, "current_user_id")
    THEN Some(Get(EnsureState(tool_context))["current_user_id"])
    ELSE Some("guest")

\* schedule_property_tour: the prospect the booking is for
tour_user_id(tool_context) ==
    IF InState(tool_context, "current_user_id")
    THEN Some(Get(EnsureState(tool_context))["current_user_id"])
    ELSE None

\* schedule_property_tour: the date it stores; None stands for the exception
\* that tour_date.lower() raises when tour_date is None
\* formatted_tour_date letting a missing date through to the store
formatted_tour_date_unchecked(tour_date) ==
    IF tour_date = None THEN Some(<<>>)
    ELSE IF Lower(Get(tour_date)) = Text_tomorrow THEN Some(strftime(AddDays(today, 1)))
    ELSE IF Lower(Get(tour_date)) = Text_next_week THEN Some(strftime(AddDays(today, 7)))
    ELSE tour_date

formatted_tour_date(tour_date) ==
    IF tour_date = None THEN None
    ELSE IF Lower(Get(tour_date)) = Text_tomorrow THEN Some(strftime(AddDays(today, 1)))
    ELSE IF Lower(Get(tour_date)) = Text_next_week THEN Some(strftime(AddDays(today, 7)))
    ELSE tour_date

\* the hour of a "pm" time
pm_hour(hour) == IF hour = 12 THEN hour ELSE hour + 12

\* a variant of am_hour without the wraparound of 12
am_hour_no_wrap(hour) == hour

\* the hour of an "am" time
am_hour(hour) == IF hour = 12 THEN 0 ELSE hour

\* the "pm" branch, from the parts around ":"; None stands for the ValueError
\* of int()
pm_time(time_parts) ==
    LET hour == ParseInt(time_parts[1])
    IN  IF hour = None THEN None
        ELSE IF Len(time_parts) = 1
        THEN Some(IntStr(pm_hour(Get(hour))) \o <<":", "0", "0">>)
        ELSE Some(IntStr(pm_hour(Get(hour))) \o <<":">> \o time_parts[2])

\* the "am" branch
am_time(time_parts) ==
    LET hour == ParseInt(time_parts[1])
    IN  IF hour = None THEN None
        ELSE IF Len(time_parts) = 1
        THEN Some(Fmt02d(am_hour(Get(hour))) \o <<":", "0", "0">>)
        ELSE Some(Fmt02d(am_hour(Get(hour))) \o <<":">> \o time_parts[2])

\* schedule_property_tour: the time it stores; None stands for an exception
\* (tour_time.lower() when tour_time is None, or the ValueError of int())
formatted_time(tour_time) ==
    IF tour_time = None THEN None
    ELSE LET lower == Lower(Get(tour_time))
         IN  IF Contains(lower, Text_pm)
             THEN pm_time(Split(Strip(Replace(lower, Text_pm)), ":"))
             ELSE IF Contains(lower, Text_am)
             THEN am_time(Split(Strip(Replace(lower, Text_am)), ":"))
             ELSE tour_time

\* tour_apartment_id looking up a unit of the type even when an id is given
tour_apartment_id_type_first(apartment_id, apartment_type) ==
    IF TruthyStr(apartment_type)
    THEN LET available_apartments ==
                 get_available_apartments(apartments, apartment_type, None)
         IN  IF available_apartments # <<>> THEN Some(available_apartments[1].id)
             ELSE apartment_id
    ELSE apartment_id

\* tour_apartment_id taking the last available unit of the type
tour_apartment_id_last(apartment_id, apartment_type) ==
    IF ~TruthyNum(apartment_id) /\ TruthyStr(apartment_type)
    THEN LET available_apartments ==
                 get_available_apartments(apartments, apartment_type, None)
         IN  IF available_apartments # <<>>
             THEN Some(available_apartments[Len(available_apartments)].id)
             ELSE apartment_id
    ELSE apartment_id

\* "if not apartment_id and apartment_type": the unit the booking references
tour_apartment_id(apartment_id, apartment_type) ==
    IF ~TruthyNum(apartment_id) /\ TruthyStr(apartment_type)
    THEN LET available_apartments ==
                 get_available_apartments(apartments, apartment_type, None)
         IN  IF available_apartments # <<>> THEN Some(available_apartments[1].id)
             ELSE apartment_id
    ELSE apartment_id

\* the unit summary of a successful booking
apartment_details(apartment_id) ==
    IF ~TruthyNum(apartment_id) THEN None
    ELSE LET apartment == get_apartment_by_id(apartments, Get(apartment_id))
         IN  IF apartment = EmptyDict THEN None
             ELSE Some([unit_number |-> apartment.unit_number,
                        apartment_type |-> apartment.apartment_type,
                        floor_plan |-> apartment.floor_plan,
                        bedrooms |-> apartment.bedrooms,
                        bathrooms |-> apartment.bathrooms])

schedule_property_tour(tour_date, tour_time, is_virtual, apartment_id, apartment_type, notes, tool_context) ==
    LET st0 == EnsureState(tool_context)
        user_id == tour_user_id(tool_context)
        date == formatted_tour_date(tour_date)
        time == formatted_time(tour_time)
        apt_id == tour_apartment_id(apartment_id, apartment_type)
        tour_id == schedule_tour_result(tours, user_id, date, time)
    IN  /\ call' = [op |-> "schedule_property_tour", tour_date |-> tour_date,
                    tour_time |-> tour_time, is_virtual |-> is_virtual,
                    apartment_id |-> apartment_id, apartment_type |-> apartment_type,
                    notes |-> notes, tool_context |-> tool_context]
        /\ pre' = Snapshot
        /\ UNCHANGED <<apartments, property_amenities, users, clock, today>>
        /\ IF ~TruthyStr(user_id)
           THEN /\ ret' = [status |-> "error",
                           message |-> "No user identified. Please provide user information first."]
                /\ state' = st0
                /\ tours' = tours
           ELSE IF date = None
           THEN /\ ret' = [status |-> "error", message |-> "Could not parse tour date"]
                /\ state' = st0
                /\ tours' = tours
           ELSE IF time = None
           THEN /\ ret' = [status |-> "error", message |-> "Could not parse tour time"]
                /\ state' = st0
                /\ tours' = tours
           ELSE /\ Len(tours) < MaxTours
                /\ tours' = schedule_tour(tours, user_id, date, time, apt_id, is_virtual,
                                          notes)
                /\ IF tour_id > 0
                   THEN /\ state' = StoreInState(tool_context, "last_scheduled_tour",
                                       [tour_id |-> tour_id,
                                        tour_date |-> Get(date),
                                        tour_time |-> Get(time),
                                        apartment_id |-> apt_id,
                                        apartment_type |-> apartment_type,
                                        is_virtual |-> is_virtual])
                        /\ ret' = [status |-> "success", tour_id |-> tour_id,
                                   tour_date |-> Get(date), tour_time |-> Get(time),
                                   is_virtual |-> is_virtual,
                                   apartment_details |-> apartment_details(apt_id),
                                   message |-> "Tour scheduled successfully"]
                   ELSE /\ state' = st0
                        /\ ret' = [status |-> "error",
                                   message |-> "Failed to schedule tour"]

\* the text of the amenity names that get_property_policies takes apart
amenity_name_text(amenity_name) ==
    CASE amenity_name = "Dog-friendly" ->
             <<"D", "o", "g", "-", "f", "r", "i", "e", "n", "d", "l", "y">>
      [] amenity_name = "Cat-friendly" ->
             <<"C", "a", "t", "-", "f", "r", "i", "e", "n", "d", "l", "y">>

\* amenity['amenity_name'].split('-')[0].strip().lower()
animal_type(amenity) == Lower(Strip(Split(amenity_name_text(amenity.amenity_name), "-")[1]))

\* the pet_policies loop: a later amenity of the same animal replaces an earlier
pet_policies(pet_amenities) ==
    LET keys == {animal_type(pet_amenities[i]) : i \in 1..Len(pet_amenities)}
        last(k) == CHOOSE i \in 1..Len(pet_amenities) :
                       /\ animal_type(pet_amenities[i]) = k
                       /\ \A j \in 1..Len(pet_amenities) :
                             animal_type(pet_amenities[j]) = k => j <= i
    IN  [k \in keys |->
            [allowed |-> pet_amenities[last(k)].is_included = 1,
             fee |-> pet_amenities[last(k)].fee_amount,
             description |-> pet_amenities[last(k)].description]]

\* the pricing_ranges loop
pricing_ranges(pricing_info) ==
    [t \in DOMAIN pricing_info |->
        [min |-> pricing_info[t].min_rent,
         max |-> pricing_info[t].max_rent,
         average |-> round2(pricing_info[t].avg_rent)]]

\* the result of get_property_policies
property_policies ==
    [status |-> "success",
     pet_policies |-> pet_policies(get_amenities(property_amenities, Some("Pets"))),
     pricing_ranges |-> pricing_ranges(get_pricing_info(apartments, None)),
     availability |-> counts_by_type(get_available_apartments(apartments, None, None))]

\* get_property_policies returning its result without storing it
get_property_policies_unsaved(tool_context) ==
    /\ call' = [op |-> "get_property_policies", tool_context |-> tool_context]
    /\ pre' = Snapshot
    /\ state' = IF tool_context THEN EnsureState(tool_context) ELSE state
    /\ ret' = property_policies
    /\ UNCHANGED <<apartments, property_amenities, users, tours, clock, today>>

get_property_policies(tool_context) ==
    /\ call' = [op |-> "get_property_policies", tool_context |-> tool_context]
    /\ pre' = Snapshot
    /\ state' = StoreInState(tool_context, "property_policies", property_policies)
    /\ ret' = property_policies
    /\ UNCHANGED <<apartments, property_amenities, users, tours, clock, today>>

\* get_apartment_details looking at the type before the id
apartment_details_result_type_first(apartment_id, apartment_type) ==
    IF TruthyStr(apartment_type)
    THEN LET pricing == get_pricing_info(apartments, apartment_type)
         IN  IF Get(apartment_type) \in DOMAIN pricing
             THEN [status |-> "success", apartment_type |-> Get(apartment_type),
                   pricing |-> pricing_ranges(pricing)[Get(apartment_type)]]
             ELSE [status |-> "error", message |-> "No pricing information found for",
                   apartment_type |-> Get(apartment_type)]
    ELSE IF TruthyNum(apartment_id)
    THEN LET apartment == get_apartment_by_id(apartments, Get(apartment_id))
         IN  IF apartment # EmptyDict
             THEN [status |-> "success", apartment |-> apartment]
             ELSE [status |-> "error", message |-> "No apartment found with ID",
                   apartment_id |-> Get(apartment_id)]
    ELSE [status |-> "success", pricing_by_type |-> get_pricing_info(apartments, None)]

\* the result of get_apartment_details
apartment_details_result(apartment_id, apartment_type) ==
    IF TruthyNum(apartment_id)
    THEN LET apartment == get_apartment_by_id(apartments, Get(apartment_id))
         IN  IF apartment # EmptyDict
             THEN [status |-> "success", apartment |-> apartment]
             ELSE [status |-> "error", message |-> "No apartment found with ID",
                   apartment_id |-> Get(apartment_id)]
    ELSE IF TruthyStr(apartment_type)
    THEN LET pricing == get_pricing_info(apartments, apartment_type)
         IN  IF Get(apartment_type) \in DOMAIN pricing
             THEN [status |-> "success", apartment_type |-> Get(apartment_type),
                   pricing |-> pricing_ranges(pricing)[Get(apartment_type)]]
             ELSE [status |-> "error", message |-> "No pricing information found for",
                   apartment_type |-> Get(apartment_type)]
    ELSE [status |-> "success", pricing_by_type |-> get_pricing_info(apartments, None)]

get_apartment_details(apartment_id, apartment_type, tool_context) ==
    /\ call' = [op |-> "get_apartment_details", apartment_id |-> apartment_id,
                apartment_type |-> apartment_type, tool_context |-> tool_context]
    /\ pre' = Snapshot
    /\ state' = StoreInState(tool_context, "last_apartment_details",
                             apartment_details_result(apartment_id, apartment_type))
    /\ ret' = apartment_details_result(apartment_id, apartment_type)
    /\ UNCHANGED <<apartments, property_amenities, users, tours, clock, today>>

\* the amenities_by_category loop: category -> its amenities in list order
amenities_by_category(amenities) ==
    [cat \in {amenities[i].category : i \in 1..Len(amenities)} |->
        LET Of(a) == a.category = cat IN SelectSeq(amenities, Of)]

get_amenities_info(category, tool_context) ==
    LET amenities == get_amenities(property_amenities, category)
    IN  /\ call' = [op |-> "get_amenities_info", category |-> category,
                    tool_context |-> tool_context]
        /\ pre' = Snapshot
        /\ state' = StoreInState(tool_context, "last_amenities_query",
                        [category |-> category, result_count |-> Len(amenities)])
        /\ ret' = [status |-> "success", amenities_count |-> Len(amenities),
                   amenities |-> amenities,
                   categories |-> amenities_by_category(amenities)]
        /\ UNCHANGED <<apartments, property_amenities, users, tours, clock, today>>

virtual_tours ==
    [t \in {"1_bedroom", "2_bedroom"} |->
        IF t = "1_bedroom" THEN "https://photos.app.goo.gl/tzHkairchH2cBTQq6"
        ELSE "https://photos.app.goo.gl/w9ARXbSUDza57eFS6"]

\* get_virtual_tour indexing virtual_tours without the test of membership:
\* the KeyError reaches the caller
virtual_tour_result_unguarded(apartment_type) ==
    IF apartment_type # None /\ Get(apartment_type) \in DOMAIN virtual_tours
    THEN [status |-> "success", tour_link |-> virtual_tours[Get(apartment_type)],
          apartment_type |-> apartment_type]
    ELSE [status |-> "raised", exception |-> "KeyError"]

\* the result of get_virtual_tour
virtual_tour_result(apartment_type) ==
    IF apartment_type # None /\ Get(apartment_type) \in DOMAIN virtual_tours
    THEN [status |-> "success", tour_link |-> virtual_tours[Get(apartment_type)],
          apartment_type |-> apartment_type]
    ELSE [status |-> "error", message |-> "No virtual tour available for",
          apartment_type |-> apartment_type]

\* get_virtual_tour neither reads nor writes the session state
get_virtual_tour(apartment_type, tool_context) ==
    /\ call' = [op |-> "get_virtual_tour", apartment_type |-> apartment_type,
                tool_context |-> tool_context]
    /\ pre' = Snapshot
    /\ ret' = virtual_tour_result(apartment_type)
    /\ UNCHANGED <<apartments, property_amenities, users, tours, state, clock, today>>

----------------------------------------------------------------------------
(* Initial states *)

\* the wall-clock dates of the model
Days ==
    { [year |-> 2025, month |-> 6, day |-> 14],
      [year |-> 2025, month |-> 12, day |-> 31] }

\* the store after MockDatabase(), no call made yet
InitStore ==
    /\ apartments = apartments_data
    /\ property_amenities = amenities_data
    /\ users = <<>>
    /\ tours = <<>>
    /\ clock = 0
    /\ call = [op |-> "none"]
    /\ ret = [status |-> "none"]
    /\ pre = Snapshot

\* a tool may be handed a null state, an empty one, or the runner's initial_state
Init ==
    /\ state \in {None, Some(EmptyDict), Some(initial_state)}
    /\ today \in Days
    /\ InitStore

----------------------------------------------------------------------------
(* Time normalisation on its own *)

Minutes == {<<"0", "0">>, <<"0", "5">>, <<"3", "0">>, <<"5", "9">>}

\* "<h>[:mm]<marker>"
ClockText(h, mm, marker) ==
    IntStr(h) \o (IF mm = None THEN <<>> ELSE <<":">> \o Get(mm)) \o marker

TwelveHourTexts ==
    {ClockText(h, mm, marker) :
        h \in 1..12, mm \in {None} \cup {Some(m) : m \in Minutes},
        marker \in {Text_am, Text_pm}}

OtherTimeTexts ==
    { <<"1", "4", ":", "0", "0">>, <<"0", "9", ":", "3", "0">>,
      <<"0", "0", ":", "0", "0">>, <<"2", "3", ":", "5", "9">>,
      <<"9", ":", "3", "0">>, <<"n", "o", "o", "n">>, <<>>,
      <<"2", "P", "M">>, <<"9", ":", "3", "0", " ", "A", "M">>,
      <<"3", " ", "p", "m">>, <<" ", "7", "a", "m", " ">>,
      <<"p", "m">>, <<"x", "p", "m">>, <<"a", "m">>, <<"1", "2", ":", "a", "m">>,
      <<"1", "3", "p", "m">>, <<"0", "a", "m">>, <<"-", "3", "p", "m">>,
      <<"1", ":", "1", "5", ":", "3", "0", "p", "m">>, <<"4", "a", "m", "p", "m">> }

TimeInputs == {None} \cup {Some(t) : t \in TwelveHourTexts \cup OtherTimeTexts}

\* one evaluation of the time normalisation
apply_formatted_time(tour_time) ==
    /\ call' = [op |-> "formatted_time", tour_time |-> tour_time]
    /\ ret' = formatted_time(tour_time)
    /\ UNCHANGED <<apartments, property_amenities, users, tours, state, clock,
                   today, pre>>

NextTime == \E tour_time \in TimeInputs : apply_formatted_time(tour_time)

SpecTime == Init /\ [][NextTime]_vars

\* the two digits of a number below 100
TwoDigit(n) == <<Digits[(n \div 10) + 1], Digits[(n % 10) + 1]>>

\* the text holds an am or pm marker, in either case
HasMarker(t) ==
    \E i \in 1..(Len(t) - 1) : t[i] \in {"a", "A", "p", "P"} /\ t[i + 1] \in {"m", "M"}

MinutesOf(mm) == IF mm = None THEN <<"0", "0">> ELSE Get(mm)

\* C3: the time normalisation maps "<h>[:mm]am" to HH:mm with HH = 00 for
\* h = 12 and h zero-padded otherwise, "<h>[:mm]pm" to HH:mm with HH = 12 for
\* h = 12 and h + 12 otherwise (mm defaulting to 00), and a literal without an
\* am or pm marker to itself; so "2pm" gives "14:00", "12am" gives "00:00",
\* "12pm" gives "12:00" and "9:30am" gives "09:30".
C3_TimeNormalisation ==
    call.op = "formatted_time" =>
        /\ \A h \in 1..12, mm \in {None} \cup {Some(m) : m \in Minutes} :
              /\ call.tour_time = Some(ClockText(h, mm, Text_am)) =>
                    ret = Some(TwoDigit(IF h = 12 THEN 0 ELSE h) \o <<":">> \o MinutesOf(mm))
              /\ call.tour_time = Some(ClockText(h, mm, Text_pm)) =>
                    ret = Some(TwoDigit(IF h = 12 THEN 12 ELSE h + 12) \o <<":">>
                               \o MinutesOf(mm))
        /\ (call.tour_time # None /\ ~HasMarker(Get(call.tour_time))) =>
              ret = call.tour_time
        /\ call.tour_time = Some(<<"2", "p", "m">>) =>
              ret = Some(<<"1", "4", ":", "0", "0">>)
        /\ call.tour_time = Some(<<"1", "2", "a", "m">>) =>
              ret = Some(<<"0", "0", ":", "0", "0">>)
        /\ call.tour_time = Some(<<"1", "2", "p", "m">>) =>
              ret = Some(<<"1", "2", ":", "0", "0">>)
        /\ call.tour_time = Some(<<"9", ":", "3", "0", "a", "m">>) =>
              ret = Some(<<"0", "9", ":", "3", "0">>)

C3_Witness ==
    /\ call.op = "formatted_time"
    /\ call.tour_time = Some(<<"1", "2", ":", "3", "0", "a", "m">>)
    /\ ret = Some(<<"0", "0", ":", "3", "0">>)

----------------------------------------------------------------------------
(* Unit queries on their own: the store operation and the tool *)

\* the store and the session as the runner sets them up
InitSession ==
    /\ state = Some(initial_state)
    /\ today = [year |-> 2025, month |-> 6, day |-> 14]
    /\ InitStore

UnitTypes == {None, Some(""), Some("1_bedroom"), Some("2_bedroom"), Some("studio")}

BoundDates ==
    { Date(2024, 12, 31), Date(2025, 5, 31), Date(2025, 6, 1), Date(2025, 6, 2),
      Date(2025, 6, 15), Date(2025, 6, 30), Date(2025, 7, 1), Date(2025, 7, 2),
      Date(2025, 7, 14), Date(2025, 7, 15), Date(2025, 7, 16), Date(2025, 7, 31),
      Date(2025, 8, 1), Date(2025, 8, 31), Date(2025, 9, 1), Date(2025, 10, 1),
      Date(2025, 12, 31), Date(2026, 1, 1) }

Bounds == {None, Some(<<>>)} \cup {Some(d) : d \in BoundDates}

MoveInHints ==
    { None, Some(<<>>), Some(Text_july), Some(<<"J", "u", "l", "y">>),
      Some(Text_august), Some(<<"A", "u", "g", "u", "s", "t">>),
      Some(Date(2025, 6, 30)), Some(Date(2025, 7, 1)), Some(Date(2025, 9, 1)) }

\* one call of db.get_available_apartments
call_get_available_apartments(apartment_type, move_in_date) ==
    /\ call' = [op |-> "get_available_apartments", apartment_type |-> apartment_type,
                move_in_date |-> move_in_date]
    /\ ret' = get_available_apartments(apartments, apartment_type, move_in_date)
    /\ pre' = Snapshot
    /\ UNCHANGED <<apartments, property_amenities, users, tours, state, clock, today>>

NextUnits ==
    \E apartment_type \in UnitTypes, move_in_date \in Bounds :
        call_get_available_apartments(apartment_type, move_in_date)

SpecUnits == InitSession /\ [][NextUnits]_vars

NextQuery ==
    \E apartment_type \in UnitTypes \ {Some("")}, move_in_date \in MoveInHints, tool_context \in BOOLEAN :
        query_apartments(apartment_type, move_in_date, tool_context)

SpecQuery == InitSession /\ [][NextQuery]_vars

\* the day number YYYYMMDD of a date in the form YYYY-MM-DD
DateNum(t) ==
    DigitsVal(SubSeq(t, 1, 4)) * 10000 + DigitsVal(SubSeq(t, 6, 7)) * 100
        + DigitsVal(SubSeq(t, 9, 10))

\* the rows of a list, as a set
RowSet(rows) == {rows[i] : i \in 1..Len(rows)}

\* the units that are available, of the type when one is given, and available
\* on or before the bound when one is given
MatchingUnits(apartment_type, bound) ==
    {a \in RowSet(apartments) :
        /\ a.is_available = 1
        /\ (apartment_type \notin {None, Some("")} => Some(a.apartment_type) = apartment_type)
        /\ (bound \notin {None, Some(<<>>)} =>
               DateNum(a.available_date) <= DateNum(Get(bound)))}

\* C10: get_available_apartments(type, bound) returns exactly the available
\* units of the type (when given) whose available date is on or before the
\* bound (when given): none other, none missing, none twice.
C10_AvailableUnits ==
    call.op = "get_available_apartments" =>
        /\ RowSet(ret) = MatchingUnits(call.apartment_type, call.move_in_date)
        /\ Len(ret) = Cardinality(RowSet(ret))

C10_Witness ==
    /\ call.op = "get_available_apartments"
    /\ call.apartment_type = Some("1_bedroom")
    /\ call.move_in_date = Some(Date(2025, 7, 1))
    /\ Len(ret) = 1
    /\ ret[1].id = 101

\* the date bound that C4 states for a move-in hint
C4_Bound(move_in_date) ==
    IF move_in_date \in {None, Some(<<>>)} THEN None
    ELSE IF Lower(Get(move_in_date)) = Text_july THEN Some(Date(2025, 7, 1))
    ELSE IF Lower(Get(move_in_date)) = Text_august THEN Some(Date(2025, 8, 1))
    ELSE move_in_date

\* C4: query_apartments maps "july" to 2025-07-01 and "august" to 2025-08-01
\* in any case, passes any other hint through as the date bound, and returns
\* exactly the available units of the type on or before that bound.
C4_QueryByHint ==
    call.op = "query_apartments" =>
        /\ RowSet(ret.apartments)
              = MatchingUnits(call.apartment_type, C4_Bound(call.move_in_date))
        /\ call.tool_context =>
              Get(state)["last_apartment_search"].formatted_date
                  = C4_Bound(call.move_in_date)

----------------------------------------------------------------------------
(* Creating and reading prospects: db.create_user, db.get_user *)

CreateNames == {None, Some("Mark")}
CreatePhones == {None, Some("555-0100")}
CreateEmails == {None, Some("mark@example.com")}
CreateDates == {None, Some(Date(2025, 7, 1))}
CreateTypes == {None, Some("1_bedroom")}
CreatePets == {None, Some(TRUE), Some(FALSE)}
LookupIds == {"u1", "u2", "u9"}

\* one call of db.create_user
call_create_user(name, phone, email, move_in_date, preferred_apartment_type, has_pets) ==
    /\ Len(users) < MaxUsers
    /\ clock < MaxClock
    /\ clock' = clock + 1
    /\ call' = [op |-> "create_user", name |-> name, phone |-> phone, email |-> email,
                move_in_date |-> move_in_date,
                preferred_apartment_type |-> preferred_apartment_type,
                has_pets |-> has_pets]
    /\ users' = create_user(users, name, phone, email, move_in_date,
                            preferred_apartment_type, has_pets, uuid4(users), clock')
    /\ ret' = uuid4(users)
    /\ pre' = Snapshot
    /\ UNCHANGED <<apartments, property_amenities, tours, state, today>>

\* one call of db.get_user
call_get_user(user_id) ==
    /\ call' = [op |-> "get_user", user_id |-> user_id]
    /\ ret' = get_user(users, user_id)
    /\ pre' = Snapshot
    /\ UNCHANGED <<apartments, property_amenities, users, tours, state, clock, today>>

NextCreate ==
    \E name \in CreateNames, phone \in CreatePhones, email \in CreateEmails, move_in_date \in CreateDates, preferred_apartment_type \in CreateTypes, has_pets \in CreatePets :
        call_create_user(name, phone, email, move_in_date, preferred_apartment_type, has_pets)

SpecCreate == InitSession /\ [][NextCreate]_vars

\* C9: after create_user, get_user with the returned identifier gives a record
\* whose supplied fields equal the supplied values and whose unsupplied fields
\* are null, with created_at = last_contact; the identifier is new, and the
\* identifiers in the table are pairwise distinct.
C9_CreateThenGet ==
    /\ call.op = "create_user" =>
          LET r == get_user(users, ret)
          IN  /\ DOMAIN r # {}
              /\ r.user_id = Some(ret)
              /\ r.name = call.name
              /\ r.phone = call.phone
              /\ r.email = call.email
              /\ r.move_in_date = call.move_in_date
              /\ r.preferred_apartment_type = call.preferred_apartment_type
              /\ r.has_pets = call.has_pets
              /\ r.income = None /\ r.credit_score = None /\ r.notes = None
              /\ r.created_at # None
              /\ r.created_at = r.last_contact
              /\ \A i \in 1..Len(pre.users) : pre.users[i].user_id # Some(ret)
              /\ Len(users) = Len(pre.users) + 1
              /\ SubSeq(users, 1, Len(pre.users)) = pre.users
    /\ \A i, j \in 1..Len(users) : i # j => users[i].user_id # users[j].user_id

\* a second prospect created with no field but has_pets = false, after a first
\* created with every field
C9_Witness ==
    /\ call.op = "create_user"
    /\ Len(users) = 2
    /\ call.has_pets = Some(FALSE)
    /\ call.name = None
    /\ users[1].name = Some("Mark")
    /\ users[1].has_pets = Some(1)
    /\ get_user(users, ret).has_pets = Some(FALSE)

----------------------------------------------------------------------------
(* Updating prospects: db.update_user *)

\* the keyword arguments tried: none, recognized keys with a value and with
\* None, has_pets with a value and with None, and keys of no column
UpdateKwargs ==
    << EmptyDict,
       [name |-> Some("Ann")],
       [name |-> None],
       [has_pets |-> Some(TRUE)],
       [has_pets |-> Some(FALSE)],
       [has_pets |-> None],
       [phone |-> Some("555-0199"), email |-> Some("ann@example.com"),
        move_in_date |-> Some(Date(2025, 8, 1)),
        preferred_apartment_type |-> Some("2_bedroom")],
       [income |-> Some(5000), credit_score |-> Some(700), notes |-> Some("cat")],
       [has_pets |-> None, notes |-> Some("cat")],
       [colour |-> Some("red")],
       [colour |-> Some("red"), name |-> Some("Ann")],
       [created_at |-> Some(0), id |-> Some(7), has_pets |-> Some(TRUE)] >>

\* one call of db.update_user
call_update_user(user_id, kwargs) ==
    /\ update_user_reads_clock(kwargs) => clock < MaxClock
    /\ clock' = IF update_user_reads_clock(kwargs) THEN clock + 1 ELSE clock
    /\ call' = [op |-> "update_user", user_id |-> user_id, kwargs |-> kwargs]
    /\ users' = update_user(users, user_id, kwargs, clock')
    /\ ret' = update_user_result(users, user_id, kwargs)
    /\ pre' = Snapshot
    /\ UNCHANGED <<apartments, property_amenities, tours, state, today>>

NextUpdate ==
    \/ call_create_user(None, None, None, None, None, None)
    \/ call_create_user(Some("Mark"), Some("555-0100"), Some("mark@example.com"), Some(Date(2025, 7, 1)), Some("1_bedroom"), Some(TRUE))
    \/ \E user_id \in LookupIds, n \in 1..Len(UpdateKwargs) :
          call_update_user(user_id, UpdateKwargs[n])
    \/ \E user_id \in LookupIds : call_get_user(user_id)

SpecUpdate == InitSession /\ [][NextUpdate]_vars

\* the columns a call of update_user is asked to set: the keys of the
\* allow-list, and has_pets when it comes with a value
Recognized(kwargs) ==
    {k \in DOMAIN kwargs :
        \/ k \in {"name", "phone", "email", "move_in_date", "preferred_apartment_type",
                   "income", "credit_score", "notes"}
        \/ (k = "has_pets" /\ kwargs[k] # None)}

\* the value a column holds for a supplied value: has_pets is kept as 1 or 0
Stored(k, v) ==
    IF k = "has_pets" THEN (IF v = Some(TRUE) THEN Some(1) ELSE Some(0)) ELSE v

\* the rows of a users table that belong to a prospect
RowsOf(us, user_id) == {i \in 1..Len(us) : us[i].user_id = Some(user_id)}

\* C7: update_user with no field returns False and changes nothing; on an
\* existing prospect with at least one allow-listed field it returns True,
\* gives exactly those fields the supplied values, leaves every other field
\* but last_contact and every other prospect as they were, and moves
\* last_contact to a later timestamp.
C7_UpdateFrame ==
    call.op = "update_user" =>
        /\ call.kwargs = EmptyDict => (ret = FALSE /\ users = pre.users)
        /\ (RowsOf(pre.users, call.user_id) # {} /\ Recognized(call.kwargs) # {}) =>
              /\ ret = TRUE
              /\ Len(users) = Len(pre.users)
              /\ \A i \in 1..Len(users) :
                    IF i \in RowsOf(pre.users, call.user_id)
                    THEN /\ DOMAIN users[i] = DOMAIN pre.users[i]
                         /\ \A c \in DOMAIN users[i] :
                               IF c \in Recognized(call.kwargs)
                               THEN users[i][c] = Stored(c, call.kwargs[c])
                               ELSE IF c = "last_contact"
                               THEN Get(users[i][c]) > Get(pre.users[i][c])
                               ELSE users[i][c] = pre.users[i][c]
                    ELSE users[i] = pre.users[i]

\* the second prospect's name is cleared by name = None; the first is untouched
C7_Witness ==
    /\ call.op = "update_user"
    /\ call.user_id = "u2"
    /\ call.kwargs = [name |-> None]
    /\ ret = TRUE
    /\ Len(users) = 2
    /\ pre.users[2].name = Some("Mark")
    /\ users[2].name = None
    /\ users[2].last_contact = Some(3)
    /\ pre.users[2].last_contact = Some(2)
    /\ users[1] = pre.users[1]

\* C8: update_user always answers with a bool; a key outside the allow-list
\* changes nothing and does not stop the recognized keys beside it from being
\* applied; on an identifier of no prospect it returns False and leaves every
\* row as it was.
C8_UnknownKeysAndIds ==
    call.op = "update_user" =>
        /\ ret \in BOOLEAN
        /\ Len(users) = Len(pre.users)
        /\ \A i \in 1..Len(users) :
              /\ DOMAIN users[i] = DOMAIN pre.users[i]
              /\ \A c \in DOMAIN users[i] \ (Recognized(call.kwargs) \cup {"last_contact"}) :
                    users[i][c] = pre.users[i][c]
              /\ i \in RowsOf(pre.users, call.user_id) =>
                    \A c \in Recognized(call.kwargs) :
                        users[i][c] = Stored(c, call.kwargs[c])
        /\ (Recognized(call.kwargs) = {} /\ call.kwargs # EmptyDict) =>
              (ret = FALSE /\ users = pre.users)
        /\ (RowsOf(pre.users, call.user_id) # {} /\ Recognized(call.kwargs) # {}) => ret = TRUE
        /\ RowsOf(pre.users, call.user_id) = {} => (ret = FALSE /\ users = pre.users)

\* a key of no column beside name: the name is set, and the call succeeds
C8_Witness ==
    /\ call.op = "update_user"
    /\ call.user_id = "u1"
    /\ "colour" \in DOMAIN call.kwargs
    /\ "name" \in DOMAIN call.kwargs
    /\ ret = TRUE
    /\ pre.users[1].name = Some("Mark")
    /\ users[1].name = Some("Ann")
    /\ "colour" \notin DOMAIN users[1]

----------------------------------------------------------------------------
(* Managing prospects through the tool: manage_user *)

\* a manage_user call with every optional argument omitted
NoArgs(action, tool_context) ==
    [action |-> action, user_id |-> None, name |-> None, phone |-> None,
     email |-> None, move_in_date |-> None, preferred_apartment_type |-> None,
     has_pets |-> None, income |-> None, credit_score |-> None, notes |-> None,
     tool_context |-> tool_context]

\* the calls tried: creations with and without a tool context; updates with
\* the identifier given, taken from the session, empty, unknown and missing,
\* with no field, one field, several fields, each kind of move-in hint, and
\* values that test false; reads; an action the tool does not know
ProspectCalls ==
    << [NoArgs("create", TRUE) EXCEPT !.name = Some("Mark")],
       [NoArgs("create", TRUE) EXCEPT !.name = Some("Mark"), !.phone = Some("555-0100"),
                                      !.move_in_date = Some(Text_july),
                                      !.preferred_apartment_type = Some("1_bedroom"),
                                      !.has_pets = Some(TRUE)],
       NoArgs("create", FALSE),
       NoArgs("update", TRUE),
       NoArgs("update", FALSE),
       [NoArgs("update", TRUE) EXCEPT !.name = Some("Ann")],
       [NoArgs("update", FALSE) EXCEPT !.name = Some("Ann")],
       [NoArgs("update", TRUE) EXCEPT !.move_in_date = Some(Text_august)],
       [NoArgs("update", TRUE) EXCEPT !.move_in_date = Some(Date(2025, 9, 1))],
       [NoArgs("update", TRUE) EXCEPT !.move_in_date = Some(<<"J", "u", "l", "y">>),
                                      !.has_pets = Some(FALSE)],
       [NoArgs("update", TRUE) EXCEPT !.income = Some(5000), !.credit_score = Some(700),
                                      !.notes = Some("cat"),
                                      !.email = Some("ann@example.com")],
       [NoArgs("update", TRUE) EXCEPT !.income = Some(0), !.name = Some("")],
       [NoArgs("update", TRUE) EXCEPT !.user_id = Some("u1"), !.name = Some("Ann")],
       [NoArgs("update", FALSE) EXCEPT !.user_id = Some("u1"),
                                       !.phone = Some("555-0199")],
       [NoArgs("update", TRUE) EXCEPT !.user_id = Some("u9"), !.name = Some("Ann")],
       [NoArgs("update", TRUE) EXCEPT !.user_id = Some(""), !.name = Some("Ann")],
       NoArgs("get", TRUE),
       [NoArgs("get", TRUE) EXCEPT !.user_id = Some("u1")],
       [NoArgs("get", FALSE) EXCEPT !.user_id = Some("u9")],
       NoArgs("delete", TRUE) >>

NextProspect ==
    \E n \in 1..Len(ProspectCalls) :
        LET c == ProspectCalls[n]
        IN  manage_user(c.action, c.user_id, c.name, c.phone, c.email, c.move_in_date, c.preferred_apartment_type, c.has_pets, c.income, c.credit_score, c.notes, c.tool_context)

\* the session before the first call: any of the states the tools provide for
InitProspect ==
    /\ state \in {None, Some(EmptyDict), Some(initial_state)}
    /\ today = [year |-> 2025, month |-> 6, day |-> 14]
    /\ InitStore

SpecProspect == InitProspect /\ [][NextProspect]_vars

----------------------------------------------------------------------------
(* manage_user "update": the prospect it targets, and what it changes *)

IsUpdate == call.op = "manage_user" /\ call.action = "update"

\* the identifier an update is to target: the argument when one is given,
\* otherwise the current_user_id of the session state before the call
UpdateTarget ==
    IF call.user_id \notin {None, Some("")} THEN call.user_id
    ELSE IF call.tool_context /\ pre.state # None
            /\ "current_user_id" \in DOMAIN Get(pre.state)
    THEN Some(Get(pre.state)["current_user_id"])
    ELSE None

\* only rows of the targeted prospect change, and a success changed one
OnlyTargetChanged ==
    /\ Len(users) = Len(pre.users)
    /\ \A i \in 1..Len(users) :
          pre.users[i].user_id # UpdateTarget => users[i] = pre.users[i]
    /\ ret.status = "success" =>
          \E i \in 1..Len(users) :
              pre.users[i].user_id = UpdateTarget /\ users[i] # pre.users[i]

\* C5 as stated: an update targets the explicit user_id, else the session's
\* current_user_id; with neither it returns status "error" and leaves the
\* users table and the session state unchanged.
C5_NoTargetNoChange ==
    IsUpdate =>
        IF UpdateTarget = None
        THEN ret.status = "error" /\ users = pre.users /\ state = pre.state
        ELSE OnlyTargetChanged

\* C5, amended: as above, but with neither identifier the session state keeps
\* its keys and values, a null state being replaced by an empty state when a
\* tool context is given.
C5_UpdateTarget ==
    IsUpdate =>
        IF UpdateTarget = None
        THEN /\ ret.status = "error"
             /\ users = pre.users
             /\ \/ state = pre.state
                \/ (pre.state = None /\ call.tool_context /\ state = Some(EmptyDict))
        ELSE OnlyTargetChanged

\* the argument names the first prospect while the session names the second
C5_Witness ==
    /\ IsUpdate
    /\ call.user_id = Some("u1")
    /\ call.tool_context
    /\ Len(pre.users) = 2
    /\ pre.state # None
    /\ "current_user_id" \in DOMAIN Get(pre.state)
    /\ Get(pre.state)["current_user_id"] = "u2"
    /\ ret.status = "success"
    /\ users[1].name = Some("Ann")
    /\ pre.users[1].name = Some("Mark")
    /\ users[2] = pre.users[2]

\* the fields manage_user takes for a prospect
ProspectFields ==
    {"name", "phone", "email", "move_in_date", "preferred_apartment_type",
     "has_pets", "income", "credit_score", "notes"}

\* C6 as stated: an update of an existing prospect sets in the store exactly
\* the supplied fields to the supplied values and leaves the unsupplied fields
\* at their previous values; after a successful update the user_info snapshot
\* of the session state holds the new value of every field changed in the store.
C6_UpdateAppliesSupplied ==
    IsUpdate =>
        \A i \in 1..Len(pre.users) :
            (UpdateTarget # None /\ pre.users[i].user_id = UpdateTarget) =>
                /\ \A f \in ProspectFields :
                      IF call[f] # None
                      THEN users[i][f] = Stored(f, call[f])
                      ELSE users[i][f] = pre.users[i][f]
                /\ (ret.status = "success" /\ call.tool_context) =>
                      \A f \in ProspectFields :
                          users[i][f] # pre.users[i][f] =>
                              /\ "user_info" \in DOMAIN Get(state)
                              /\ f \in DOMAIN Get(state)["user_info"]
                              /\ Stored(f, Get(state)["user_info"][f]) = users[i][f]

----------------------------------------------------------------------------
(* Booking a tour: schedule_property_tour *)

TourDates == {Some(Text_tomorrow), Some(Date(2025, 6, 20))}
TourTimes == {Some(<<"3", "p", "m">>), Some(<<"1", "4", ":", "0", "0">>)}
TourUnits == {None, Some(101)}
TourTypes == {None, Some("1_bedroom")}
TourNotes == {None, Some("bring the dog")}

\* every combination of arguments, tried while the session names no prospect;
\* a prospect created with and without a tool context; and bookings for the
\* prospect the session names
NextTour ==
    \/ \E tool_context \in BOOLEAN :
          manage_user("create", None, Some("Mark"), None, None, None, None, None, None, None, None, tool_context)
    \/ \E tour_date \in TourDates, tour_time \in TourTimes, is_virtual \in BOOLEAN, apartment_id \in TourUnits, apartment_type \in TourTypes, notes \in TourNotes, tool_context \in BOOLEAN :
          /\ ~InState(tool_context, "current_user_id")
          /\ schedule_property_tour(tour_date, tour_time, is_virtual, apartment_id, apartment_type, notes, tool_context)
    \/ \E is_virtual \in BOOLEAN, apartment_type \in TourTypes :
          /\ InState(TRUE, "current_user_id")
          /\ schedule_property_tour(Some(Text_tomorrow), Some(<<"3", "p", "m">>), is_virtual, None, apartment_type, None, TRUE)

SpecTour == InitProspect /\ [][NextTour]_vars

\* the session state before the call names no prospect: no tool context, a
\* null state, or a state without current_user_id
NoCurrentUser ==
    \/ ~call.tool_context
    \/ pre.state = None
    \/ "current_user_id" \notin DOMAIN Get(pre.state)

\* C1: schedule_property_tour called while the session state holds no
\* current_user_id (a null state and no tool context included) returns status
\* "error" and leaves the tours table as it was, whatever the arguments.
C1_NoProspectNoTour ==
    (call.op = "schedule_property_tour" /\ NoCurrentUser) =>
        /\ ret.status = "error"
        /\ tours = pre.tours

\* a call with a tool context on a null state, with a prospect in the table
C1_Witness ==
    /\ call.op = "schedule_property_tour"
    /\ call.tool_context
    /\ pre.state = None
    /\ Len(users) = 1
    /\ call.apartment_id = Some(101)
    /\ call.tour_date = Some(Text_tomorrow)
    /\ ret.status = "error"
    /\ tours = <<>>

----------------------------------------------------------------------------
(* The scenario: create a prospect, query units, book a tour *)

\* the dates the scenario is run on: ends of months and years, leap days
ScenarioDays ==
    { [year |-> y, month |-> m, day |-> d] :
        y \in {2024, 2025}, m \in {1, 2, 6, 12}, d \in {1, 14, 28, 29, 30, 31} }

ScenarioInit ==
    /\ state = Some(initial_state)
    /\ today \in {d \in ScenarioDays : d.day <= DaysIn(d.year, d.month)}
    /\ InitStore

\* the three calls in their order
NextScenario ==
    \/ /\ call.op = "none"
       /\ manage_user("create", None, Some("Mark"), None, None, None, None, None, None, None, None, TRUE)
    \/ /\ call.op = "manage_user"
       /\ query_apartments(Some("1_bedroom"), Some(Text_july), TRUE)
    \/ /\ call.op = "query_apartments"
       /\ \E is_virtual \in BOOLEAN, notes \in TourNotes :
             schedule_property_tour(Some(Text_tomorrow), Some(<<"3", "p", "m">>), is_virtual, None, Some("1_bedroom"), notes, TRUE)

SpecScenario == ScenarioInit /\ [][NextScenario]_vars

\* the number of days from 0001-01-01 to the date, counted without NextDay
Ordinal(y, m, d) ==
    LET leap == (y % 4 = 0 /\ y % 100 # 0) \/ y % 400 = 0
        before == <<0, 31, 59, 90, 120, 151, 181, 212, 243, 273, 304, 334>>
    IN  365 * (y - 1) + ((y - 1) \div 4) - ((y - 1) \div 100) + ((y - 1) \div 400)
            + before[m] + (IF leap /\ m > 2 THEN 1 ELSE 0) + d

\* the text is YYYY-MM-DD and names the day after today
IsDayAfterToday(t) ==
    /\ Len(t) = 10
    /\ t[5] = "-" /\ t[8] = "-"
    /\ \A i \in {1, 2, 3, 4, 6, 7, 9, 10} : IsDigit(t[i])
    /\ LET y == DigitsVal(SubSeq(t, 1, 4))
           m == DigitsVal(SubSeq(t, 6, 7))
           d == DigitsVal(SubSeq(t, 9, 10))
           ny == IF m = 12 THEN y + 1 ELSE y
           nm == IF m = 12 THEN 1 ELSE m + 1
       IN  /\ m \in 1..12
           /\ d >= 1
           /\ d <= Ordinal(ny, nm, 1) - Ordinal(y, m, 1)
           /\ Ordinal(y, m, d) = Ordinal(today.year, today.month, today.day) + 1

\* the first available unit of a type, in storage order
FirstAvailable(apartment_type) ==
    LET idx == {i \in 1..Len(apartments) :
                   apartments[i].is_available = 1
                   /\ apartments[i].apartment_type = apartment_type}
    IN  apartments[CHOOSE i \in idx : \A j \in idx : i <= j].id

\* C2: in the scenario the query returns exactly the available 1_bedroom units
\* with available date <= 2025-07-01, and after the booking the tours table
\* holds exactly one row: owned by the created prospect, for the day after
\* today, at "15:00", with status "Scheduled" and the first available
\* 1_bedroom unit in storage order.
C2_Scenario ==
    /\ call.op = "query_apartments" =>
          /\ ret.status = "success"
          /\ RowSet(ret.apartments)
                = MatchingUnits(Some("1_bedroom"), Some(Date(2025, 7, 1)))
          /\ Len(ret.apartments) = Cardinality(RowSet(ret.apartments))
          /\ tours = <<>>
    /\ call.op = "schedule_property_tour" =>
          /\ ret.status = "success"
          /\ Len(users) = 1
          /\ users[1].name = Some("Mark")
          /\ Len(tours) = 1
          /\ Some(tours[1].user_id) = users[1].user_id
          /\ IsDayAfterToday(tours[1].tour_date)
          /\ tours[1].tour_time = <<"1", "5", ":", "0", "0">>
          /\ tours[1].status = "Scheduled"
          /\ tours[1].apartment_id = Some(FirstAvailable("1_bedroom"))

\* the scenario run on the last day of a leap February
C2_Witness ==
    /\ call.op = "schedule_property_tour"
    /\ today = [year |-> 2024, month |-> 2, day |-> 29]
    /\ Len(tours) = 1
    /\ tours[1].tour_date = Date(2024, 3, 1)
    /\ tours[1].apartment_id = Some(101)
    /\ tours[1].user_id = "u1"
    /\ Get(state)["last_apartment_search"].result_count = 1

----------------------------------------------------------------------------
(* The catalogue: pricing, unit details, property policies *)

DetailIds == {None, Some(0), Some(101), Some(402), Some(999)}
DetailTypes == {None, Some(""), Some("1_bedroom"), Some("studio")}

\* one call of db.get_pricing_info
call_get_pricing_info(apartment_type) ==
    /\ call' = [op |-> "get_pricing_info", apartment_type |-> apartment_type]
    /\ ret' = get_pricing_info(apartments, apartment_type)
    /\ pre' = Snapshot
    /\ UNCHANGED <<apartments, property_amenities, users, tours, state, clock, today>>

NextCatalog ==
    \/ \E apartment_type \in UnitTypes : call_get_pricing_info(apartment_type)
    \/ \E apartment_id \in DetailIds, apartment_type \in DetailTypes, tool_context \in BOOLEAN :
          get_apartment_details(apartment_id, apartment_type, tool_context)
    \/ \E tool_context \in BOOLEAN : get_property_policies(tool_context)

SpecCatalog == InitProspect /\ [][NextCatalog]_vars

\* the units of a type, available or not, as positions in the table
UnitsOfType(t) == {i \in 1..Len(apartments) : apartments[i].apartment_type = t}

\* the sum of the rents of a set of units
RECURSIVE RentSum(_)
RentSum(S) ==
    IF S = {} THEN 0
    ELSE LET i == CHOOSE x \in S : TRUE
         IN  apartments[i].rent_amount + RentSum(S \ {i})

\* C11: get_pricing_info has an entry for exactly the unit types that have a
\* unit (and match the type asked for, when one is); its count is the number
\* of units of the type, available or not, min and max are the least and the
\* greatest rent among them, the mean is their sum over their number, and
\* min <= mean <= max.
C11_PricingOverAllUnits ==
    call.op = "get_pricing_info" =>
        /\ DOMAIN ret =
              {t \in {"1_bedroom", "2_bedroom", "studio"} :
                  /\ UnitsOfType(t) # {}
                  /\ (call.apartment_type \notin {None, Some("")} =>
                         Some(t) = call.apartment_type)}
        /\ \A t \in DOMAIN ret :
              LET U == UnitsOfType(t)
                  rents == {apartments[i].rent_amount : i \in U}
              IN  /\ ret[t].count = Cardinality(U)
                  /\ ret[t].min_rent \in rents
                  /\ ret[t].max_rent \in rents
                  /\ \A r \in rents : ret[t].min_rent <= r /\ r <= ret[t].max_rent
                  /\ ret[t].avg_rent.den > 0
                  /\ ret[t].avg_rent.num * Cardinality(U) = RentSum(U) * ret[t].avg_rent.den
                  /\ ret[t].min_rent * ret[t].avg_rent.den <= ret[t].avg_rent.num
                  /\ ret[t].avg_rent.num <= ret[t].max_rent * ret[t].avg_rent.den

\* the whole table: four units of each type, two of them unavailable
C11_Witness ==
    /\ call.op = "get_pricing_info"
    /\ call.apartment_type = None
    /\ DOMAIN ret = {"1_bedroom", "2_bedroom"}
    /\ ret["1_bedroom"] = [min_rent |-> 1600, max_rent |-> 1650,
                           avg_rent |-> [num |-> 1625, den |-> 1], count |-> 4]
    /\ ret["2_bedroom"].count = 4
    /\ ret["2_bedroom"].avg_rent = [num |-> 2150, den |-> 1]

\* the table has a unit with the id
UnitsWithId(id) == {i \in 1..Len(apartments) : apartments[i].id = id}

\* a pricing range is that of the units of a type: least and greatest rent,
\* and their mean to the nearest hundredth
IsRangeOfType(pricing, t) ==
    LET U == UnitsOfType(t)
        rents == {apartments[i].rent_amount : i \in U}
        a == pricing.average
        diff == a.num * Cardinality(U) - RentSum(U) * a.den
    IN  /\ pricing.min \in rents /\ \A r \in rents : pricing.min <= r
        /\ pricing.max \in rents /\ \A r \in rents : r <= pricing.max
        /\ a.den > 0
        /\ 200 * (IF diff < 0 THEN 0 - diff ELSE diff) <= a.den * Cardinality(U)

\* the full pricing table: an entry for each type that has a unit
IsFullPricingTable(pricing) ==
    /\ DOMAIN pricing = {t \in {"1_bedroom", "2_bedroom", "studio"} : UnitsOfType(t) # {}}
    /\ \A t \in DOMAIN pricing : pricing[t].count = Cardinality(UnitsOfType(t))

\* the three branches, for a reading of which arguments count as given
DetailsBranches(id_given, type_given) ==
    IF id_given
    THEN IF UnitsWithId(Get(call.apartment_id)) # {}
         THEN /\ ret.status = "success"
              /\ DOMAIN ret = {"status", "apartment"}
              /\ \E i \in UnitsWithId(Get(call.apartment_id)) : ret.apartment = apartments[i]
         ELSE ret.status = "error"
    ELSE IF type_given
    THEN IF UnitsOfType(Get(call.apartment_type)) # {}
         THEN /\ ret.status = "success"
              /\ DOMAIN ret = {"status", "apartment_type", "pricing"}
              /\ ret.apartment_type = Get(call.apartment_type)
              /\ IsRangeOfType(ret.pricing, Get(call.apartment_type))
         ELSE ret.status = "error"
    ELSE /\ ret.status = "success"
         /\ DOMAIN ret = {"status", "pricing_by_type"}
         /\ IsFullPricingTable(ret.pricing_by_type)

\* C14 as stated: get_apartment_details answers by id whenever an id is
\* supplied (that unit, or "error" when no unit has the id), by type when only
\* a type is supplied (its pricing range, or "error" when no unit has the
\* type), and with the full pricing table when neither is supplied.
C14_DetailsBySuppliedId ==
    call.op = "get_apartment_details" =>
        DetailsBranches(call.apartment_id # None, call.apartment_type # None)

\* C14, amended: the same three branches, where an id of 0 and an empty type
\* count as not supplied.
C14_DetailsThreeWay ==
    call.op = "get_apartment_details" =>
        DetailsBranches(call.apartment_id \notin {None, Some(0)},
                        call.apartment_type \notin {None, Some("")})

\* an id beside a type: the unit is returned, not the pricing of the type
C14_Witness ==
    /\ call.op = "get_apartment_details"
    /\ call.apartment_id = Some(402)
    /\ call.apartment_type = Some("1_bedroom")
    /\ ret.status = "success"
    /\ "apartment" \in DOMAIN ret
    /\ ret.apartment.unit_number = "402"
    /\ ret.apartment.apartment_type = "2_bedroom"

\* the available units of a type
AvailableOfType(t) ==
    {i \in 1..Len(apartments) : apartments[i].apartment_type = t /\ apartments[i].is_available = 1}

\* C15: get_property_policies returns status "success"; its availability map
\* has an entry exactly for the types with an available unit, holding their
\* number; and a call made with a session leaves the returned result under
\* the session state's property_policies key.
C15_PoliciesStored ==
    call.op = "get_property_policies" =>
        /\ ret.status = "success"
        /\ DOMAIN ret.availability =
               {t \in {"1_bedroom", "2_bedroom", "studio"} : AvailableOfType(t) # {}}
        /\ \A t \in DOMAIN ret.availability :
               ret.availability[t] = Cardinality(AvailableOfType(t))
        /\ call.tool_context =>
               /\ state # None
               /\ "property_policies" \in DOMAIN Get(state)
               /\ Get(state)["property_policies"] = ret
               /\ pre.state # None =>
                      \A key \in DOMAIN Get(pre.state) \ {"property_policies"} :
                          key \in DOMAIN Get(state) /\ Get(state)[key] = Get(pre.state)[key]
        /\ ~call.tool_context => state = pre.state

\* a call on a session whose state was null
C15_Witness ==
    /\ call.op = "get_property_policies"
    /\ call.tool_context
    /\ pre.state = None
    /\ state # None
    /\ "property_policies" \in DOMAIN Get(state)
    /\ Get(state)["property_policies"] = ret
    /\ DOMAIN ret.availability = {"1_bedroom", "2_bedroom"}
    /\ DOMAIN ret.pet_policies = {<<"d", "o", "g">>, <<"c", "a", "t">>}

----------------------------------------------------------------------------
(* Booking a tour: the unit it references, and the failures it reports *)

BookingDates == {None, Some(Text_tomorrow), Some(Date(2025, 6, 20))}
BookingTimes ==
    {None, Some(<<"3", "p", "m">>), Some(<<"1", "4", ":", "0", "0">>),
     Some(<<"1", "2", "a", "m">>), Some(<<"x", "p", "m">>), Some(<<"p", "m">>),
     Some(<<":", "3", "0", "a", "m">>)}
BookingUnits == {None, Some(0), Some(101), Some(402), Some(999)}
BookingTypes == {None, Some(""), Some("1_bedroom"), Some("2_bedroom"), Some("studio")}

\* a prospect is created, with or without the session learning of it, and a
\* tour is asked for
NextBooking ==
    \/ /\ call.op = "none"
       /\ \E tool_context \in BOOLEAN :
             manage_user("create", None, Some("Mark"), None, None, None, None, None, None, None, None, tool_context)
    \/ /\ call.op = "manage_user"
       /\ \E tour_date \in BookingDates, tour_time \in BookingTimes, is_virtual \in BOOLEAN, apartment_id \in BookingUnits, apartment_type \in BookingTypes, tool_context \in BOOLEAN :
             schedule_property_tour(tour_date, tour_time, is_virtual, apartment_id, apartment_type, None, tool_context)

SpecBooking == InitProspect /\ [][NextBooking]_vars

\* the call added a row to the tours table
Booked ==
    /\ call.op = "schedule_property_tour"
    /\ ret.status = "success"
    /\ Len(tours) = Len(pre.tours) + 1

\* the unit the new row is to reference, for a reading of when an id is given
BookedUnit(id_given) ==
    LET row == tours[Len(tours)]
        type_given == call.apartment_type \notin {None, Some("")}
        units == IF type_given THEN AvailableOfType(Get(call.apartment_type)) ELSE {}
    IN  IF id_given THEN row.apartment_id = call.apartment_id
        ELSE IF type_given /\ units # {}
        THEN row.apartment_id = Some(FirstAvailable(Get(call.apartment_type)))
        ELSE IF type_given THEN row.apartment_id = call.apartment_id
        ELSE TRUE

\* C12 as stated: a successful booking with a type and no unit id references
\* the first available unit of the type in storage order; with a unit id it
\* references that id whatever the type; with no id and no available unit of
\* the type it has no unit reference.
C12_BookedUnitById ==
    Booked => BookedUnit(call.apartment_id # None)

\* C12, amended: the same, where an id of 0 counts as no id: with a type that
\* has an available unit the booking references the first such unit, and
\* with a type that has none it keeps the id argument as it was (null or 0).
C12_BookedUnit ==
    Booked => BookedUnit(call.apartment_id \notin {None, Some(0)})

\* an id beside a type that has available units: the id is kept
C12_Witness ==
    /\ Booked
    /\ call.apartment_id = Some(402)
    /\ call.apartment_type = Some("1_bedroom")
    /\ tours[Len(tours)].apartment_id = Some(402)

\* the session state before the call names a prospect
HasCurrentUser ==
    /\ call.tool_context
    /\ pre.state # None
    /\ "current_user_id" \in DOMAIN Get(pre.state)

\* the times of BookingTimes that int() or .lower() reject: no value, and a
\* "pm" or "am" time whose hour is not a number
UnparseableTimes ==
    {None, Some(<<"x", "p", "m">>), Some(<<"p", "m">>), Some(<<":", "3", "0", "a", "m">>)}

\* the messages of the four causes of failure
NoUserMessage == "No user identified. Please provide user information first."
DateMessage == "Could not parse tour date"
TimeMessage == "Could not parse tour time"
StoreMessage == "Failed to schedule tour"

----------------------------------------------------------------------------
(* Every tool, on every kind of session state *)

QueryTypes == {None, Some(""), Some("1_bedroom"), Some("studio")}
QueryDates == {None, Some(<<>>), Some(Text_july), Some(Date(2025, 9, 1)), Some(<<"s", "o", "o", "n">>)}
AmenityCategories == {None, Some(""), Some("Pets"), Some("Spa")}
VirtualTourTypes == {None, Some(""), Some("1_bedroom"), Some("2_bedroom"), Some("studio")}

\* no call was made yet, or only prospects were created: the session state is
\* null, empty, as the agent starts it, or populated by the creations
SessionSetUp == call.op = "none" \/ (call.op = "manage_user" /\ call.action = "create")

\* prospects are created, and then a tool is called with some combination of
\* its arguments
NextTools ==
    /\ SessionSetUp
    /\ \/ \E tool_context \in BOOLEAN : get_property_policies(tool_context)
       \/ \E apartment_type \in QueryTypes, move_in_date \in QueryDates, tool_context \in BOOLEAN :
             query_apartments(apartment_type, move_in_date, tool_context)
       \/ \E apartment_id \in DetailIds, apartment_type \in DetailTypes, tool_context \in BOOLEAN :
             get_apartment_details(apartment_id, apartment_type, tool_context)
       \/ \E category \in AmenityCategories, tool_context \in BOOLEAN :
             get_amenities_info(category, tool_context)
       \/ NextProspect
       \/ \E tour_date \in BookingDates, tour_time \in BookingTimes, is_virtual \in BOOLEAN, apartment_id \in BookingUnits, apartment_type \in BookingTypes, tool_context \in BOOLEAN :
             schedule_property_tour(tour_date, tour_time, is_virtual, apartment_id, apartment_type, None, tool_context)
       \/ \E apartment_type \in VirtualTourTypes, tool_context \in BOOLEAN :
             get_virtual_tour(apartment_type, tool_context)

SpecTools == InitProspect /\ [][NextTools]_vars

Tools ==
    {"get_property_policies", "query_apartments", "get_apartment_details",
     "get_amenities_info", "manage_user", "schedule_property_tour", "get_virtual_tour"}

\* the call looked something up and there was nothing to find: a unit by a
\* non-zero id, pricing by a non-empty type, a prospect by the identifier the
\* call resolves to, a virtual tour by type
NotFound ==
    \/ /\ call.op = "get_apartment_details"
       /\ \/ call.apartment_id \notin {None, Some(0)}
                /\ UnitsWithId(Get(call.apartment_id)) = {}
          \/ call.apartment_id \in {None, Some(0)}
                /\ call.apartment_type \notin {None, Some("")}
                /\ UnitsOfType(Get(call.apartment_type)) = {}
    \/ /\ call.op = "manage_user"
       /\ call.action \in {"update", "get"}
       /\ UpdateTarget # None
       /\ \A i \in 1..Len(pre.users) : pre.users[i].user_id # UpdateTarget
    \/ /\ call.op = "get_virtual_tour"
       /\ call.apartment_type \notin {Some("1_bedroom"), Some("2_bedroom")}

\* the call needs a prospect and neither its arguments nor the session name one
UnresolvedIdentifier ==
    \/ call.op = "manage_user" /\ call.action \in {"update", "get"} /\ UpdateTarget = None
    \/ call.op = "schedule_property_tour" /\ ~HasCurrentUser

UnknownAction ==
    call.op = "manage_user" /\ call.action \notin {"create", "update", "get"}

ParseFailure ==
    /\ call.op = "schedule_property_tour"
    /\ call.tour_date = None \/ call.tour_time \in UnparseableTimes

----------------------------------------------------------------------------
(* Listing a prospect's tours: schedule_tour and get_user_tours *)

MaxListed == 2   \* rows of tours in the listing

\* the bookings stored: two prospects, days around each other, times before
\* and after noon written with and without a leading zero, units that exist,
\* that do not, and none
ListedBookings ==
    << [user_id |-> "u1", tour_date |-> Date(2025, 6, 20), tour_time |-> <<"1", "4", ":", "0", "0">>, apartment_id |-> Some(101), is_virtual |-> FALSE],
       [user_id |-> "u1", tour_date |-> Date(2025, 6, 20), tour_time |-> <<"9", ":", "3", "0">>, apartment_id |-> None, is_virtual |-> TRUE],
       [user_id |-> "u1", tour_date |-> Date(2025, 6, 20), tour_time |-> <<"0", "9", ":", "0", "0">>, apartment_id |-> Some(999), is_virtual |-> FALSE],
       [user_id |-> "u1", tour_date |-> Date(2025, 6, 19), tour_time |-> <<"1", "5", ":", "0", "0">>, apartment_id |-> Some(402), is_virtual |-> FALSE],
       [user_id |-> "u1", tour_date |-> Date(2025, 6, 20), tour_time |-> <<"1", "4", ":", "0", "0">>, apartment_id |-> None, is_virtual |-> TRUE],
       [user_id |-> "u2", tour_date |-> Date(2025, 6, 20), tour_time |-> <<"1", "0", ":", "0", "0">>, apartment_id |-> Some(101), is_virtual |-> FALSE],
       [user_id |-> "u2", tour_date |-> Date(2025, 7, 1), tour_time |-> <<"0", "8", ":", "3", "0">>, apartment_id |-> None, is_virtual |-> FALSE] >>

call_schedule_tour(user_id, tour_date, tour_time, apartment_id, is_virtual, notes) ==
    /\ Len(tours) < MaxListed
    /\ call' = [op |-> "schedule_tour", user_id |-> user_id, tour_date |-> tour_date,
                tour_time |-> tour_time, apartment_id |-> apartment_id,
                is_virtual |-> is_virtual, notes |-> notes]
    /\ pre' = Snapshot
    /\ tours' = schedule_tour(tours, Some(user_id), Some(tour_date), Some(tour_time),
                              apartment_id, is_virtual, notes)
    /\ ret' = schedule_tour_result(tours, Some(user_id), Some(tour_date), Some(tour_time))
    /\ UNCHANGED <<apartments, property_amenities, users, state, clock, today>>

call_get_user_tours(user_id) ==
    /\ call' = [op |-> "get_user_tours", user_id |-> user_id]
    /\ pre' = Snapshot
    /\ ret' \in get_user_tours(tours, apartments, user_id)
    /\ UNCHANGED <<apartments, property_amenities, users, tours, state, clock, today>>

NextListing ==
    \/ \E n \in 1..Len(ListedBookings) :
          LET b == ListedBookings[n]
          IN  call_schedule_tour(b.user_id, b.tour_date, b.tour_time, b.apartment_id, b.is_virtual, None)
    \/ \E user_id \in {"u1", "u2", "u9"} : call_get_user_tours(user_id)

SpecListing == InitSession /\ [][NextListing]_vars

\* the minutes since midnight of a time written H:MM or HH:MM
MinuteOfDay(t) ==
    LET parts == Split(t, ":") IN DigitsVal(parts[1]) * 60 + DigitsVal(parts[2])

\* the list holds exactly the bookings of the prospect, each once, each with
\* the summary of its unit
ListsBookingsOf(rows, user_id) ==
    /\ {rows[k].id : k \in 1..Len(rows)}
          = {tours[i].id : i \in {j \in 1..Len(tours) : tours[j].user_id = user_id}}
    /\ \A k, l \in 1..Len(rows) : k # l => rows[k].id # rows[l].id
    /\ \A k \in 1..Len(rows) :
          \E i \in 1..Len(tours) :
              /\ tours[i].id = rows[k].id
              /\ rows[k].user_id = user_id
              /\ rows[k].tour_date = tours[i].tour_date
              /\ rows[k].tour_time = tours[i].tour_time
              /\ rows[k].apartment_id = tours[i].apartment_id
              /\ rows[k].status = tours[i].status
              /\ LET units == UnitsWithId(IF tours[i].apartment_id = None THEN 0
                                          ELSE Get(tours[i].apartment_id))
                 IN  IF units = {}
                     THEN /\ rows[k].unit_number = None
                          /\ rows[k].apartment_type = None
                          /\ rows[k].floor_plan = None
                     ELSE \E u \in units :
                              /\ rows[k].unit_number = Some(apartments[u].unit_number)
                              /\ rows[k].apartment_type = Some(apartments[u].apartment_type)
                              /\ rows[k].floor_plan = Some(apartments[u].floor_plan)

\* C17: get_user_tours returns exactly the bookings of the prospect, each with
\* the summary fields of its unit (null without a unit), earlier dates first
\* and, on the same date, earlier times first.
C17_ToursListedInOrder ==
    call.op = "get_user_tours" =>
        /\ ListsBookingsOf(ret, call.user_id)
        /\ \A k, l \in 1..Len(ret) :
               k < l =>
                  \/ DateNum(ret[k].tour_date) < DateNum(ret[l].tour_date)
                  \/ /\ DateNum(ret[k].tour_date) = DateNum(ret[l].tour_date)
                     /\ MinuteOfDay(ret[k].tour_time) <= MinuteOfDay(ret[l].tour_time)

----------------------------------------------------------------------------
(* The agent: any sequence of tool calls on the seed store and initial state *)

\* the manage_user calls of the agent: prospects created with and without the
\* session learning of them, updates and reads of the current prospect and
\* of a prospect named by its identifier, an unknown identifier, an unknown
\* action; the tools that only read are called without a tool context
AgentProspectCalls ==
    << [NoArgs("create", TRUE) EXCEPT !.name = Some("Mark")],
       [NoArgs("create", FALSE) EXCEPT !.name = Some("Ann")],
       [NoArgs("update", TRUE) EXCEPT !.phone = Some("555-0100")],
       [NoArgs("update", TRUE) EXCEPT !.user_id = Some("u1"), !.email = Some("ann@example.com")],
       NoArgs("get", TRUE),
       [NoArgs("get", TRUE) EXCEPT !.user_id = Some("u1")],
       [NoArgs("get", TRUE) EXCEPT !.user_id = Some("u9")],
       NoArgs("delete", TRUE) >>

\* the bookings the agent asks for
AgentTourCalls ==
    << [tour_date |-> Some(Text_tomorrow), tour_time |-> Some(<<"3", "p", "m">>),
        apartment_id |-> None, apartment_type |-> Some("1_bedroom"), tool_context |-> TRUE],
       [tour_date |-> Some(Date(2025, 6, 20)), tour_time |-> Some(<<"1", "4", ":", "0", "0">>),
        apartment_id |-> Some(999), apartment_type |-> None, tool_context |-> TRUE],
       [tour_date |-> Some(Date(2025, 6, 20)), tour_time |-> Some(<<"x", "p", "m">>),
        apartment_id |-> Some(101), apartment_type |-> None, tool_context |-> TRUE],
       [tour_date |-> Some(Text_tomorrow), tour_time |-> Some(<<"3", "p", "m">>),
        apartment_id |-> Some(101), apartment_type |-> None, tool_context |-> FALSE] >>

Next ==
    \/ \E n \in 1..Len(AgentProspectCalls) :
          LET c == AgentProspectCalls[n]
          IN  manage_user(c.action, c.user_id, c.name, c.phone, c.email, c.move_in_date, c.preferred_apartment_type, c.has_pets, c.income, c.credit_score, c.notes, c.tool_context)
    \/ \E n \in 1..Len(AgentTourCalls) :
          LET c == AgentTourCalls[n]
          IN  schedule_property_tour(c.tour_date, c.tour_time, FALSE, c.apartment_id, c.apartment_type, None, c.tool_context)
    \/ query_apartments(Some("1_bedroom"), Some(Text_july), FALSE)
    \/ get_apartment_details(Some(101), None, FALSE)
    \/ get_amenities_info(Some("Pets"), FALSE)
    \/ get_property_policies(FALSE)
    \/ get_virtual_tour(Some("1_bedroom"), TRUE)

Spec == InitSession /\ [][Next]_vars

\* the identifiers of the prospects in the users table
StoredUserIds == {Get(users[i].user_id) : i \in 1..Len(users)}

\* C18: in every state the agent reaches, the current_user_id of the session
\* state, when there is one, is the identifier of a row of users, and every
\* row of tours is owned by a prospect that has a row in users.
C18_OwnersExist ==
    /\ (state # None /\ "current_user_id" \in DOMAIN Get(state)) =>
          Get(state)["current_user_id"] \in StoredUserIds
    /\ \A i \in 1..Len(tours) : tours[i].user_id \in StoredUserIds

\* a tour booked for the second prospect the session created
C18_Witness ==
    /\ Len(users) = 2
    /\ Len(tours) = 1
    /\ state # None
    /\ "current_user_id" \in DOMAIN Get(state)
    /\ Get(state)["current_user_id"] = "u2"
    /\ tours[1].user_id = "u2"

\* the session state holds a current_user_id and a non-empty snapshot
HasSnapshot ==
    /\ state # None
    /\ "current_user_id" \in DOMAIN Get(state)
    /\ "user_info" \in DOMAIN Get(state)
    /\ Get(state)["user_info"] # EmptyDict

\* C19: whenever the session state holds a current_user_id and a non-empty
\* user_info snapshot, the snapshot's user_id is the current_user_id and its
\* name, phone, email, preferred apartment type and has-pets value are those
\* stored for that prospect.
C19_SnapshotOfCurrent ==
    HasSnapshot =>
        LET info == Get(state)["user_info"]
            current == Get(state)["current_user_id"]
        IN  /\ "user_id" \in DOMAIN info
            /\ info.user_id = Some(current)
            /\ \A i \in RowsOf(users, current) :
                  /\ \A f \in {"name", "phone", "email", "preferred_apartment_type"} :
                        f \in DOMAIN info /\ info[f] = users[i][f]
                  /\ "has_pets" \in DOMAIN info
                  /\ users[i].has_pets =
                        (IF info.has_pets = None THEN None ELSE Stored("has_pets", info.has_pets))

\* the call was a successful create or update, given a move-in value, of the
\* prospect the session names after it
MoveInSetForCurrent ==
    /\ call.op = "manage_user"
    /\ call.action \in {"create", "update"}
    /\ call.tool_context
    /\ call.move_in_date # None
    /\ ret.status = "success"
    /\ HasSnapshot
    /\ call.action = "update" => UpdateTarget = Some(Get(state)["current_user_id"])

\* C20: after a successful create or update of the session's current prospect
\* that was given a move-in value, the move-in date of the snapshot
\* (formatted_move_in_date after a create, move_in_date after an update) is the
\* move_in_date stored for that prospect.
C20_MoveInAgrees ==
    MoveInSetForCurrent =>
        LET info == Get(state)["user_info"]
            key == IF call.action = "create" THEN "formatted_move_in_date"
                   ELSE "move_in_date"
        IN  /\ key \in DOMAIN info
            /\ \A i \in RowsOf(users, Get(state)["current_user_id"]) :
                  info[key] = users[i].move_in_date

\* C21: every row of tours with a unit reference references a unit that has a
\* row in apartments, and a successful schedule_property_tour whose booking
\* has a unit reference returns a unit summary for it.
C21_BookedUnitsExist ==
    /\ \A i \in 1..Len(tours) :
          tours[i].apartment_id # None => UnitsWithId(Get(tours[i].apartment_id)) # {}
    /\ (Booked /\ tours[Len(tours)].apartment_id # None) => ret.apartment_details # None

\* the call only reads: one of the five tools that write no table, or
\* manage_user with "get" or an action it does not know
ReadOnlyCall ==
    \/ call.op \in {"query_apartments", "get_apartment_details", "get_amenities_info",
                    "get_property_policies", "get_virtual_tour"}
    \/ call.op = "manage_user" /\ call.action \notin {"create", "update"}

\* C22: a read-only call changes no row of any table; the apartments and
\* property_amenities tables always hold the seed rows; the users table is
\* changed only by manage_user "create" or "update"; the tours table is
\* changed only by a successful schedule_property_tour, which adds exactly
\* one row.
C22_Frame ==
    /\ apartments = apartments_data
    /\ property_amenities = amenities_data
    /\ ReadOnlyCall => (users = pre.users /\ tours = pre.tours)
    /\ users # pre.users =>
          (call.op = "manage_user" /\ call.action \in {"create", "update"})
    /\ tours # pre.tours =>
          (call.op = "schedule_property_tour" /\ ret.status = "success")
    /\ (call.op = "schedule_property_tour" /\ ret.status = "success") =>
          /\ Len(tours) = Len(pre.tours) + 1
          /\ SubSeq(tours, 1, Len(pre.tours)) = pre.tours
    /\ (call.op = "schedule_property_tour" /\ ret.status = "error") => tours = pre.tours
    /\ call.op = "schedule_property_tour" => users = pre.users

\* a read of the first prospect while the session names the second and a tour
\* is booked: the snapshot changes, the tables do not
C22_Witness ==
    /\ call.op = "manage_user"
    /\ call.action = "get"
    /\ call.user_id = Some("u1")
    /\ ret.status = "success"
    /\ Len(users) = 2
    /\ Len(tours) = 1
    /\ users = pre.users
    /\ tours = pre.tours
    /\ state # pre.state

====
